---- MODULE Spec2Model ----
(***************************************************************************)
(* Model of the risk assessment pipeline of gemini_play:                   *)
(*   RiskAssessmentEngine.assess_proposal   (risk_engine.py)               *)
(*   GeminiLLMService.extract_keywords / rank_and_select (llm_service.py)  *)
(*   DatabaseServiceClient.search_risks / get_controls_for_risks           *)
(*                                                      (db_service.py)    *)
(* One run of assess_proposal is a sequence of steps, one per external     *)
(* call (generation request, HTTP GET); the reply of the collaborator is   *)
(* chosen nondeterministically at each step.  Python strings that the code *)
(* inspects or builds (keywords, risk ids, messages) are sequences of      *)
(* pieces, so that sanitising, pattern matching and f-strings are computed.*)
(***************************************************************************)
EXTENDS Integers, Sequences, FiniteSets, TLC

\* ---------------------------------------------------------------- config.py
TOP_N_RISKS == 3
MAX_CANDIDATE_RISKS == 30
\* db_service.py: sanitized_keywords[:3] and sanitized[:100]
SEARCH_KEYWORD_LIMIT == 3
SANITIZED_MAX_LEN == 100

\* ------------------------------------------------------------------ bounds
\* longest keyword list the generation service returns
MaxKeywords == 4
\* how many entries beyond TOP_N_RISKS a ranking reply may have
MaxExtraRisks == 1

\* ----------------------------------------------------------------- helpers
Min(a, b) == IF a < b THEN a ELSE b

Range(s) == {s[i] : i \in 1..Len(s)}

Take(s, n) == SubSeq(s, 1, Min(n, Len(s)))

\* all sequences over S of length lo..hi
SeqsOf(S, lo, hi) == UNION {[1..n -> S] : n \in lo..hi}

\* t occurs in s as a contiguous block (Python: t in s)
Contains(s, t) ==
    \E i \in 0..(Len(s) - Len(t)) : SubSeq(s, i + 1, i + Len(t)) = t

DigitChars == <<"0", "1", "2", "3", "4", "5", "6", "7", "8", "9">>

\* str(n) for 0 <= n <= 99
IntStr(n) ==
    IF n < 10 THEN <<DigitChars[n + 1]>>
    ELSE <<DigitChars[(n \div 10) + 1], DigitChars[(n % 10) + 1]>>

UpperChars == {"A", "B", "C", "D", "E", "F", "G", "H", "I", "J", "K", "L", "M",
               "N", "O", "P", "Q", "R", "S", "T", "U", "V", "W", "X", "Y", "Z"}
LowerChars == {"a", "b", "c", "d", "e", "f", "g", "h", "i", "j", "k", "l", "m",
               "n", "o", "p", "q", "r", "s", "t", "u", "v", "w", "x", "y", "z"}
\* what \s matches in a str pattern: the ASCII whitespace and the whitespace
\* beyond ASCII, of which the no-break space stands here
NO_BREAK_SPACE == "<U+00A0>"
WhitespaceChars == {" ", "\t", "\n", "\r", "\f", NO_BREAK_SPACE}

\* ------------------------------------------------------ exceptions (Python)
\* the classes that the code raises or that its collaborators raise, with
\* their base classes (reflexive)
Bases(cls) ==
    CASE cls = "JSONDecodeError"  -> {"JSONDecodeError", "ValueError", "Exception"}
      [] cls = "ValueError"       -> {"ValueError", "Exception"}
      [] cls = "TypeError"        -> {"TypeError", "Exception"}
      [] cls = "KeyError"         -> {"KeyError", "Exception"}
      [] cls = "RequestException" -> {"RequestException", "Exception"}
      [] cls = "GoogleAPIError"   -> {"GoogleAPIError", "Exception"}
      [] OTHER                    -> {cls, "Exception"}

Err(cls, msg) == [cls |-> cls, msg |-> msg]
NoErr == [cls |-> "", msg |-> <<>>]

\* the two sentinel identifiers of risk_engine.py
ERROR_ID == <<"E", "R", "R", "O", "R">>
NA_ID == <<"N", "/", "A">>

\* ---------------------------------------------- db_service._sanitize_keyword
SanitizeAllowed(c) ==
    c \in LowerChars \cup UpperChars \cup Range(DigitChars)
          \cup WhitespaceChars \cup {"-", "_"}

\* variant: the slice is missing
_sanitize_keyword_NoLimit(keyword) == SelectSeq(keyword, SanitizeAllowed)

\* re.sub(r'[^a-zA-Z0-9\s\-_]', '', keyword)[:100]
_sanitize_keyword(keyword) ==
    Take(SelectSeq(keyword, SanitizeAllowed), SANITIZED_MAX_LEN)

\* ---------------------------------------------- db_service._validate_risk_id
\* re.match(r'^R\.[A-Z]+\.[0-9]+$', risk_id); '$' also matches before one
\* trailing newline
RiskIdCore(s) ==
    /\ Len(s) >= 5
    /\ s[1] = "R"
    /\ s[2] = "."
    /\ \E k \in 4..(Len(s) - 1) :
          /\ s[k] = "."
          /\ \A i \in 3..(k - 1) : s[i] \in UpperChars
          /\ \A i \in (k + 1)..Len(s) : s[i] \in Range(DigitChars)

RiskIdMatches(risk_id) ==
    \/ RiskIdCore(risk_id)
    \/ /\ Len(risk_id) > 0
       /\ risk_id[Len(risk_id)] = "\n"
       /\ RiskIdCore(SubSeq(risk_id, 1, Len(risk_id) - 1))

\* ------------------------------------------------------------- models.py
Risk(risk_id, risk_title, risk_description) ==
    [risk_id |-> risk_id, risk_title |-> risk_title,
     risk_description |-> risk_description]

Control(control_id, control_title, control_description) ==
    [control_id |-> control_id, control_title |-> control_title,
     control_description |-> control_description]

RiskAssessment(risk_id, risk_title, risk_description, explanation, controls) ==
    [risk_id |-> risk_id, risk_title |-> risk_title,
     risk_description |-> risk_description, explanation |-> explanation,
     controls |-> controls]

KeywordExtractionResult(keywords, confidence) ==
    [keywords |-> keywords, confidence |-> confidence]

\* --------------------------------------- replies of the generation service
\* keywords the service may return; KwDirty loses its ';' when sanitised.
\* The first SEARCH_KEYWORD_LIMIT positions hold KwPlain or KwDirty, every
\* later position holds KwLate, so that a query tells which position it
\* came from.
KwPlain == <<"d", "a", "t", "a">>
KwDirty == <<"a", "i", ";", " ", "-", "1">>
KwLate == <<"l", "a", "t", "e", "'">>
KeywordChoices == {KwPlain, KwDirty}
KeywordLists ==
    SeqsOf(KeywordChoices, 0, SEARCH_KEYWORD_LIMIT)
    \cup {head \o [i \in 1..n |-> KwLate] :
            head \in SeqsOf(KeywordChoices, SEARCH_KEYWORD_LIMIT, SEARCH_KEYWORD_LIMIT),
            n \in 1..(MaxKeywords - SEARCH_KEYWORD_LIMIT)}

\* a JSON number: a literal with a fraction, held in tenths, or an integer
\* literal
JsonFloat(tenths) == [kind |-> "float", v |-> tenths]
JsonInt(n) == [kind |-> "int", v |-> n]
NoNumber == [kind |-> "none", v |-> 0]

\* an integer literal too long for a float (more than 309 digits):
\* json.loads gives an int, and float() of it raises OverflowError
JsonBigInt == [kind |-> "bigint", v |-> 0]
FloatOverflows(number) == number.kind = "bigint"

\* variant: the value is brought into [0, 1]
float_Clamped(number) ==
    LET tenths == IF number.kind = "int" THEN 10 * number.v ELSE number.v
    IN  IF tenths < 0 THEN 0 ELSE IF tenths > 10 THEN 10 ELSE tenths

\* float(x) of a JSON number, in tenths
float(number) == IF number.kind = "int" THEN 10 * number.v ELSE number.v

\* confidence 0.9 and the out-of-range 1.5
ConfidenceValues == {JsonFloat(9), JsonFloat(15)}
\* the out-of-range -0.5 and 2, which come with a single keyword
FarConfidenceValues == {JsonFloat(-5), JsonInt(2)}

\* a keyword reply: the call raises, the text is not JSON, or a JSON object
\* with or without its two fields; keywords may be a non-list, confidence a
\* value float() rejects
KwReply(kind, has_kw, kw_is_list, kw, has_conf, conf_is_number, conf) ==
    [kind |-> kind, has_keywords |-> has_kw,
     keywords_is_list |-> kw_is_list, keywords |-> kw,
     has_confidence |-> has_conf,
     confidence_is_number |-> conf_is_number, confidence |-> conf]

KeywordReplies ==
    {KwReply("raise", FALSE, FALSE, <<>>, FALSE, FALSE, NoNumber),
     KwReply("notjson", FALSE, FALSE, <<>>, FALSE, FALSE, NoNumber),
     KwReply("json", FALSE, FALSE, <<>>, TRUE, TRUE, JsonFloat(9)),
     KwReply("json", TRUE, TRUE, <<KwPlain>>, FALSE, FALSE, NoNumber),
     KwReply("json", FALSE, FALSE, <<>>, FALSE, FALSE, NoNumber),
     KwReply("json", TRUE, FALSE, <<>>, TRUE, TRUE, JsonFloat(9)),
     KwReply("json", TRUE, TRUE, <<KwPlain>>, TRUE, FALSE, NoNumber),
     KwReply("json", TRUE, TRUE, <<>>, TRUE, FALSE, NoNumber)}
    \cup {KwReply("json", TRUE, TRUE, k, TRUE, TRUE, c) :
            k \in KeywordLists, c \in ConfidenceValues}
    \cup {KwReply("json", TRUE, TRUE, <<k>>, TRUE, TRUE, c) :
            k \in KeywordChoices, c \in FarConfidenceValues}

NoKwReply == KwReply("none", FALSE, FALSE, <<>>, FALSE, FALSE, NoNumber)

\* what the generation service raises when it is unreachable
LLM_UNAVAILABLE == Err("GoogleAPIError", <<"503 UNAVAILABLE">>)

\* ------------------------------------------ llm_service.extract_keywords
\* the outcome of extract_keywords on a reply: [ok, value, err]
Raised(e) == [ok |-> FALSE, value |-> <<>>, err |-> e]
Returned(v) == [ok |-> TRUE, value |-> v, err |-> NoErr]

\* variant: an empty keyword list is returned like any other
extract_keywords_try_AllowEmpty(reply) ==
    IF reply.kind = "raise" THEN Raised(LLM_UNAVAILABLE)
    ELSE IF reply.kind = "notjson"
    THEN Raised(Err("JSONDecodeError", <<"Expecting value">>))
    ELSE IF ~reply.has_keywords \/ ~reply.has_confidence
    THEN Raised(Err("ValueError", <<"Invalid response format from LLM">>))
    ELSE IF ~reply.confidence_is_number
    THEN Raised(Err("ValueError", <<"could not convert string to float">>))
    ELSE IF FloatOverflows(reply.confidence)
    THEN Raised(Err("OverflowError", <<"int too large to convert to float">>))
    ELSE IF ~reply.keywords_is_list
    THEN Raised(Err("ValueError", <<"No keywords extracted">>))
    ELSE Returned(KeywordExtractionResult(reply.keywords, float(reply.confidence)))

\* variant: the check that both fields are present is missing
extract_keywords_try_NoFieldCheck(reply) ==
    IF reply.kind = "raise" THEN Raised(LLM_UNAVAILABLE)
    ELSE IF reply.kind = "notjson"
    THEN Raised(Err("JSONDecodeError", <<"Expecting value">>))
    ELSE IF reply.has_confidence /\ ~reply.confidence_is_number
    THEN Raised(Err("ValueError", <<"could not convert string to float">>))
    ELSE IF reply.has_keywords /\ (~reply.keywords_is_list \/ Len(reply.keywords) = 0)
    THEN Raised(Err("ValueError", <<"No keywords extracted">>))
    ELSE Returned(KeywordExtractionResult(reply.keywords, float(reply.confidence)))

\* variant: a confidence outside [0, 1] is rejected
extract_keywords_try_RangeChecked(reply) ==
    IF reply.kind = "raise" THEN Raised(LLM_UNAVAILABLE)
    ELSE IF reply.kind = "notjson"
    THEN Raised(Err("JSONDecodeError", <<"Expecting value">>))
    ELSE IF ~reply.has_keywords \/ ~reply.has_confidence
    THEN Raised(Err("ValueError", <<"Invalid response format from LLM">>))
    ELSE IF ~reply.confidence_is_number
    THEN Raised(Err("ValueError", <<"could not convert string to float">>))
    ELSE IF FloatOverflows(reply.confidence)
    THEN Raised(Err("OverflowError", <<"int too large to convert to float">>))
    ELSE IF float(reply.confidence) < 0 \/ float(reply.confidence) > 10
    THEN Raised(Err("ValueError", <<"Confidence out of range">>))
    ELSE IF ~reply.keywords_is_list \/ Len(reply.keywords) = 0
    THEN Raised(Err("ValueError", <<"No keywords extracted">>))
    ELSE Returned(KeywordExtractionResult(reply.keywords, float(reply.confidence)))

\* the body of the try block, before the except clauses
extract_keywords_try(reply) ==
    IF reply.kind = "raise" THEN Raised(LLM_UNAVAILABLE)
    ELSE IF reply.kind = "notjson"
    THEN Raised(Err("JSONDecodeError", <<"Expecting value">>))
    ELSE IF ~reply.has_keywords \/ ~reply.has_confidence
    THEN Raised(Err("ValueError", <<"Invalid response format from LLM">>))
    ELSE IF ~reply.confidence_is_number
    THEN Raised(Err("ValueError", <<"could not convert string to float">>))
    ELSE IF FloatOverflows(reply.confidence)
    THEN Raised(Err("OverflowError", <<"int too large to convert to float">>))
    ELSE IF ~reply.keywords_is_list \/ Len(reply.keywords) = 0
    THEN Raised(Err("ValueError", <<"No keywords extracted">>))
    ELSE Returned(KeywordExtractionResult(reply.keywords, float(reply.confidence)))

\* except json.JSONDecodeError: raise Exception(...); except Exception: raise
LLMExcept(out) ==
    IF ~out.ok /\ "JSONDecodeError" \in Bases(out.err.cls)
    THEN Raised(Err("Exception", <<"Invalid JSON response from LLM">>))
    ELSE out

extract_keywords(reply) == LLMExcept(extract_keywords_try(reply))

\* ------------------------------------------------- replies of the repository
\* the n-th risk of the catalogue: id R.A.<n>
RiskId(n) == <<"R", ".", "A", ".">> \o IntStr(n)

SearchItem(type, id, title, description) ==
    [type |-> type, id |-> id, title |-> title, description |-> description]

RiskItem(n) ==
    SearchItem("risk", RiskId(n), <<"Title ">> \o IntStr(n), <<"Desc ">> \o IntStr(n))

\* the same id with another title, a result that is no risk, and a risk
\* whose id is not of the form R.<LETTERS>.<DIGITS>
AltItem(n) == SearchItem("risk", RiskId(n), <<"Alt title">>, <<"Alt desc">>)
ControlItem == SearchItem("control", <<"C", ".", "1">>, <<"A control">>, <<"c">>)
MalformedItem == SearchItem("risk", ERROR_ID, <<"Odd">>, <<"odd id">>)

\* the "results" array of a /api/search reply
EmptyBody == <<>>
SmallBody == <<RiskItem(1), ControlItem, RiskItem(2), AltItem(1), MalformedItem>>
BigBody == [i \in 1..(MAX_CANDIDATE_RISKS + 1) |-> RiskItem(i)]
SearchBodies == {EmptyBody, SmallBody, BigBody}

\* the id of the one risk of BigBody that lies beyond MAX_CANDIDATE_RISKS
BeyondId == RiskId(MAX_CANDIDATE_RISKS + 1)

SearchReplies ==
    {[kind |-> "error", results |-> <<>>]}
    \cup {[kind |-> "ok", results |-> b] : b \in SearchBodies}

\* what requests raises on a transport error or an error status
HTTP_ERROR == Err("RequestException", <<"503 Server Error">>)

\* ----------------------------------------------- db_service.search_risks
FALLBACK_KEYWORDS ==
    <<<<"d", "a", "t", "a">>, <<"m", "o", "d", "e", "l">>,
      <<"s", "e", "c", "u", "r", "i", "t", "y">>,
      <<"p", "r", "i", "v", "a", "c", "y">>,
      <<"g", "o", "v", "e", "r", "n", "a", "n", "c", "e">>>>

SanitizedKeywords(keywords) ==
    [i \in 1..Len(keywords) |-> _sanitize_keyword(keywords[i])]

\* variant: the slice is missing, every keyword is queried
KeywordsToSearch_All(sanitized_keywords) == sanitized_keywords

\* sanitized_keywords[:3], the keywords that are queried
KeywordsToSearch(sanitized_keywords) == Take(sanitized_keywords, SEARCH_KEYWORD_LIMIT)

\* variant: every risk item is appended, whether or not its id is known
MergeResults_NoDedup(all_risks_, items) ==
    LET IsRisk(item) == item.type = "risk"
        risks == SelectSeq(items, IsRisk)
    IN  all_risks_ \o
        [k \in 1..Len(risks) |->
            Risk(risks[k].id, risks[k].title, risks[k].description)]

\* the loop over data["results"]: an item is added when it is a risk and its
\* id is not yet a key of all_risks, that is, neither merged by an earlier
\* query nor carried by an earlier risk item of this reply
MergeResults(all_risks_, items) ==
    LET Added(i) ==
            /\ items[i].type = "risk"
            /\ ~\E j \in 1..Len(all_risks_) : all_risks_[j].risk_id = items[i].id
            /\ ~\E j \in 1..(i - 1) :
                    items[j].type = "risk" /\ items[j].id = items[i].id
        positions == [i \in 1..Len(items) |-> i]
        added == SelectSeq(positions, Added)
    IN  all_risks_ \o
        [k \in 1..Len(added) |->
            Risk(items[added[k]].id, items[added[k]].title,
                 items[added[k]].description)]

\* variant: the request error is raised again as it is
DBExcept_Reraise(e) == e

\* except RequestException: raise Exception("Database service unavailable: ..")
\* except Exception: raise
DBExcept(e) ==
    IF "RequestException" \in Bases(e.cls)
    THEN Err("Exception", <<"Database service unavailable: ">> \o e.msg)
    ELSE e

\* -------------------------------------------------- ranking replies
\* an entry of the "risks" array; either field may be missing
RankEntry(has_risk_id, risk_id, has_reasoning, reasoning) ==
    [has_risk_id |-> has_risk_id, risk_id |-> risk_id,
     has_reasoning |-> has_reasoning, reasoning |-> reasoning]

OkEntry(risk_id) == RankEntry(TRUE, risk_id, TRUE, <<"because ">> \o risk_id)
NoIdEntry == RankEntry(FALSE, <<>>, TRUE, <<"because">>)

\* complete entries: two risks of SmallBody, the risk beyond the limit of
\* BigBody, and the risk with the malformed id
EntryChoices ==
    {OkEntry(RiskId(1)), OkEntry(RiskId(2)), OkEntry(BeyondId), OkEntry(ERROR_ID)}

\* arrays of a wrong length, and arrays with an incomplete entry, carry a
\* known and an unknown id
MismatchChoices == {OkEntry(RiskId(1)), OkEntry(BeyondId)}

RankArrays ==
    SeqsOf(EntryChoices, TOP_N_RISKS, TOP_N_RISKS)
    \cup SeqsOf(MismatchChoices, 0, TOP_N_RISKS + MaxExtraRisks)
    \cup {[a EXCEPT ![i] = NoIdEntry] :
            a \in SeqsOf(MismatchChoices, TOP_N_RISKS, TOP_N_RISKS),
            i \in 1..TOP_N_RISKS}

RankReplies ==
    {[kind |-> "raise", has_risks |-> FALSE, risks |-> <<>>],
     [kind |-> "notjson", has_risks |-> FALSE, risks |-> <<>>],
     [kind |-> "json", has_risks |-> FALSE, risks |-> <<>>]}
    \cup {[kind |-> "json", has_risks |-> TRUE, risks |-> a] : a \in RankArrays}

NoReply == [kind |-> "none", has_risks |-> FALSE, risks |-> <<>>]

\* ------------------------------------------- llm_service.rank_and_select
\* variant: the list is never cut
LimitCandidates_None(risks) == risks

\* risks[:MAX_CANDIDATE_RISKS] when there are more
LimitCandidates(risks) ==
    IF Len(risks) > MAX_CANDIDATE_RISKS
    THEN SubSeq(risks, 1, MAX_CANDIDATE_RISKS)
    ELSE risks

\* variants: only a short array, or only a long array, is an error
CountAccepted_AtLeast(n) == n >= TOP_N_RISKS
CountAccepted_AtMost(n) == n <= TOP_N_RISKS

\* len(ranked_risks) != TOP_N_RISKS is an error
CountAccepted(n) == n = TOP_N_RISKS

\* variant: the id is looked up in the whole catalogue, not in this call's list
IsCandidate_Catalogue(risk_id, risks) ==
    \E n \in 1..(MAX_CANDIDATE_RISKS + 1) : risk_id = RiskId(n)

\* any(r.risk_id == risk_id for r in risks)
IsCandidate(risk_id, risks) ==
    \E j \in 1..Len(risks) : risks[j].risk_id = risk_id

\* variant: the membership check is missing
EntryError_FieldsOnly(entry, risks) ==
    IF ~entry.has_risk_id \/ ~entry.has_reasoning
    THEN Err("ValueError", <<"Invalid risk format in LLM response">>)
    ELSE NoErr

\* the two checks of the loop body on one entry
EntryError(entry, risks) ==
    IF ~entry.has_risk_id \/ ~entry.has_reasoning
    THEN Err("ValueError", <<"Invalid risk format in LLM response">>)
    ELSE IF ~IsCandidate(entry.risk_id, risks)
    THEN Err("ValueError", <<"LLM selected invalid risk_id: ">> \o entry.risk_id)
    ELSE NoErr

\* variant: the membership check reads the list as it was passed in
ValidatedAgainst_Uncut(candidates, risks) == candidates

\* the name risks is rebound to the cut list before the validation loop
\* reads it
ValidatedAgainst(candidates, risks) == risks

\* variant: a reply that names a risk_id twice is rejected
rank_and_select_try_Distinct(candidates, reply) ==
    LET risks == ValidatedAgainst(candidates, LimitCandidates(candidates))
        ranked_risks == reply.risks
        bad == {i \in 1..Len(ranked_risks) : EntryError(ranked_risks[i], risks) # NoErr}
        first == CHOOSE i \in bad : \A j \in bad : i <= j
        repeated == \E i, j \in 1..Len(ranked_risks) :
                       i < j /\ ranked_risks[i].risk_id = ranked_risks[j].risk_id
    IN  IF reply.kind = "raise" THEN Raised(LLM_UNAVAILABLE)
        ELSE IF reply.kind = "notjson"
        THEN Raised(Err("JSONDecodeError", <<"Expecting value">>))
        ELSE IF ~reply.has_risks
        THEN Raised(Err("ValueError", <<"Invalid response format from LLM">>))
        ELSE IF ~CountAccepted(Len(ranked_risks))
        THEN Raised(Err("ValueError",
                        <<"Expected ">> \o IntStr(TOP_N_RISKS) \o <<" risks, got ">>
                            \o IntStr(Len(ranked_risks))))
        ELSE IF bad # {}
        THEN Raised(EntryError(ranked_risks[first], risks))
        ELSE IF repeated
        THEN Raised(Err("ValueError", <<"Duplicate risk_id in LLM response">>))
        ELSE Returned(ranked_risks)

\* variant: every entry is checked for its fields before any membership
\* check
rank_and_select_try_FieldsFirst(candidates, reply) ==
    LET risks == ValidatedAgainst(candidates, LimitCandidates(candidates))
        ranked_risks == reply.risks
        incomplete == {i \in 1..Len(ranked_risks) :
                          ~ranked_risks[i].has_risk_id \/ ~ranked_risks[i].has_reasoning}
        bad == {i \in 1..Len(ranked_risks) : EntryError(ranked_risks[i], risks) # NoErr}
        first == CHOOSE i \in bad : \A j \in bad : i <= j
    IN  IF reply.kind = "raise" THEN Raised(LLM_UNAVAILABLE)
        ELSE IF reply.kind = "notjson"
        THEN Raised(Err("JSONDecodeError", <<"Expecting value">>))
        ELSE IF ~reply.has_risks
        THEN Raised(Err("ValueError", <<"Invalid response format from LLM">>))
        ELSE IF ~CountAccepted(Len(ranked_risks))
        THEN Raised(Err("ValueError",
                        <<"Expected ">> \o IntStr(TOP_N_RISKS) \o <<" risks, got ">>
                            \o IntStr(Len(ranked_risks))))
        ELSE IF incomplete # {}
        THEN Raised(Err("ValueError", <<"Invalid risk format in LLM response">>))
        ELSE IF bad # {}
        THEN Raised(EntryError(ranked_risks[first], risks))
        ELSE Returned(ranked_risks)

rank_and_select_try(candidates, reply) ==
    LET risks == ValidatedAgainst(candidates, LimitCandidates(candidates))
        ranked_risks == reply.risks
        bad == {i \in 1..Len(ranked_risks) : EntryError(ranked_risks[i], risks) # NoErr}
        first == CHOOSE i \in bad : \A j \in bad : i <= j
    IN  IF reply.kind = "raise" THEN Raised(LLM_UNAVAILABLE)
        ELSE IF reply.kind = "notjson"
        THEN Raised(Err("JSONDecodeError", <<"Expecting value">>))
        ELSE IF ~reply.has_risks
        THEN Raised(Err("ValueError", <<"Invalid response format from LLM">>))
        ELSE IF ~CountAccepted(Len(ranked_risks))
        THEN Raised(Err("ValueError",
                        <<"Expected ">> \o IntStr(TOP_N_RISKS) \o <<" risks, got ">>
                            \o IntStr(Len(ranked_risks))))
        ELSE IF bad # {}
        THEN Raised(EntryError(ranked_risks[first], risks))
        ELSE Returned(ranked_risks)

rank_and_select(candidates, reply) == LLMExcept(rank_and_select_try(candidates, reply))

\* ------------------------------------ db_service.get_controls_for_risks
Relationship(source_id, relationship_type, target_id) ==
    [source_id |-> source_id, relationship_type |-> relationship_type,
     target_id |-> target_id]

NoRelationships == <<>>
SomeRelationships ==
    <<Relationship(RiskId(1), "risk_control", <<"C.AIIM.1">>),
      Relationship(RiskId(1), "risk_risk", <<"C.AIIM.2">>),
      Relationship(RiskId(1), "risk_control", <<>>),
      Relationship(RiskId(9), "risk_control", <<"C.AIIM.9">>),
      Relationship(RiskId(1), "risk_control", <<"C.AIIM.3">>)>>

ControlReplies ==
    {[kind |-> "error", data |-> <<>>],
     [kind |-> "ok", data |-> NoRelationships],
     [kind |-> "ok", data |-> SomeRelationships]}

\* variant: the ids are not validated
AllIdsValid_Unchecked(risk_ids) == TRUE

\* _validate_risk_id succeeds on every id
AllIdsValid(risk_ids) == \A i \in 1..Len(risk_ids) : RiskIdMatches(risk_ids[i])

\* the ValueError of the first id that _validate_risk_id rejects
FirstInvalidId(risk_ids) ==
    LET bad == {i \in 1..Len(risk_ids) : ~RiskIdMatches(risk_ids[i])}
        first == CHOOSE i \in bad : \A j \in bad : i <= j
    IN  Err("ValueError", <<"Invalid risk ID format: ">> \o risk_ids[first])

\* the controls of one risk id, in the order of the relationships list
ControlsOf(risk_id, data) ==
    LET IsControlOf(rel) ==
            /\ rel.source_id = risk_id
            /\ rel.relationship_type = "risk_control"
            /\ rel.target_id # <<>>
        rels == SelectSeq(data, IsControlOf)
    IN  [i \in 1..Len(rels) |->
            Control(rels[i].target_id, <<"Control ">> \o rels[i].target_id,
                    <<"Control for risk ">> \o risk_id)]

ControlsByRisk(validated_ids, data) ==
    [rid \in Range(validated_ids) |-> ControlsOf(rid, data)]

\* ------------------------------------ risk_engine.assess_proposal, stage 5
\* variant: no decision is matched to a candidate
FindDetails_None(risk_id, candidates) == 0

\* variant: the last candidate with this id is taken
FindDetails_Last(risk_id, candidates) ==
    IF \E j \in 1..Len(candidates) : candidates[j].risk_id = risk_id
    THEN CHOOSE j \in 1..Len(candidates) :
            /\ candidates[j].risk_id = risk_id
            /\ \A k \in (j + 1)..Len(candidates) : candidates[k].risk_id # risk_id
    ELSE 0

\* index of the first candidate with this id, 0 when there is none
FindDetails(risk_id, candidates) ==
    IF \E j \in 1..Len(candidates) : candidates[j].risk_id = risk_id
    THEN CHOOSE j \in 1..Len(candidates) :
            /\ candidates[j].risk_id = risk_id
            /\ \A k \in 1..(j - 1) : candidates[k].risk_id # risk_id
    ELSE 0

\* variant: the assessments come in the order of the candidate list
JoinAssessments_CandidateOrder(ranked, candidates, controls) ==
    LET Decided(c) == \E i \in 1..Len(ranked) : ranked[i].risk_id = c.risk_id
        kept == SelectSeq(candidates, Decided)
    IN  [i \in 1..Len(kept) |->
            LET n == CHOOSE n \in 1..Len(ranked) :
                        /\ ranked[n].risk_id = kept[i].risk_id
                        /\ \A m \in 1..(n - 1) : ranked[m].risk_id # kept[i].risk_id
            IN  RiskAssessment(
                    kept[i].risk_id, kept[i].risk_title, kept[i].risk_description,
                    ranked[n].reasoning,
                    IF kept[i].risk_id \in DOMAIN controls
                    THEN controls[kept[i].risk_id] ELSE <<>>)]

\* the join loop: unmatched decisions are skipped
JoinAssessments(ranked, candidates, controls) ==
    LET Matched(entry) == FindDetails(entry.risk_id, candidates) # 0
        kept == SelectSeq(ranked, Matched)
    IN  [i \in 1..Len(kept) |->
            LET details == candidates[FindDetails(kept[i].risk_id, candidates)]
            IN  RiskAssessment(
                    kept[i].risk_id, details.risk_title, details.risk_description,
                    kept[i].reasoning,
                    IF kept[i].risk_id \in DOMAIN controls
                    THEN controls[kept[i].risk_id] ELSE <<>>)]

NA_ASSESSMENT ==
    RiskAssessment(NA_ID, <<"Assessment Error">>, <<"Could not assess this risk">>,
                   <<"Assessment failed">>, <<>>)

\* variant: a short list is returned as it is
PadAssessments_None(assessments) == assessments

\* while len(assessments) < TOP_N_RISKS: append the "N/A" entry
PadAssessments(assessments) ==
    IF Len(assessments) < TOP_N_RISKS
    THEN assessments \o [i \in 1..(TOP_N_RISKS - Len(assessments)) |-> NA_ASSESSMENT]
    ELSE assessments

\* variant: the explanation does not carry the message
ERROR_ASSESSMENT_Generic(e) ==
    RiskAssessment(ERROR_ID, <<"Assessment Error">>,
                   <<"An error occurred during risk assessment">>,
                   <<"Error: ">>, <<>>)

\* ----------------------------- risk_engine.assess_proposal, except clause
ERROR_ASSESSMENT(e) ==
    RiskAssessment(ERROR_ID, <<"Assessment Error">>,
                   <<"An error occurred during risk assessment">>,
                   <<"Error: ">> \o e.msg, <<>>)

error_assessments(e) == [i \in 1..TOP_N_RISKS |-> ERROR_ASSESSMENT(e)]

\* variant: except ValueError as e
EngineCatches_ValueError(e) == "ValueError" \in Bases(e.cls)

\* except Exception as e
EngineCatches(e) == "Exception" \in Bases(e.cls)

\* variant: the fallback search is made whatever the first search returned
NeedsFallback_Always(risks) == TRUE

\* if not candidate_risks
NeedsFallback(risks) == risks = <<>>

\* ------------------------------------------------------- proposal formatting
\* The values of a proposal dict: None (or a missing key: proposal.get
\* gives None for both), a str, a list of str, a dict as its items in order.
None == [kind |-> "none", v |-> <<>>]
Str(pieces) == [kind |-> "str", v |-> pieces]
List(items) == [kind |-> "list", v |-> items]
Dict(items) == [kind |-> "dict", v |-> items]
Item(key, value) == [key |-> key, value |-> value]

BLANK_LINE == "\n\n"

\* the fixed fields in the order of the if statements, with their labels
FixedFields ==
    <<[key |-> "proposal_title", label |-> "Title: "],
      [key |-> "description", label |-> "Description: "],
      [key |-> "technical_approach", label |-> "Technical Approach: "],
      [key |-> "data_sources", label |-> "Data Sources: "],
      [key |-> "deployment", label |-> "Deployment: "],
      [key |-> "data_governance", label |-> "Data Governance: "],
      [key |-> "model_governance", label |-> "Model Governance: "],
      [key |-> "security_measures", label |-> "Security Measures: "]>>

\* variant: only None counts as missing
Truthy_NotNone(x) == x.kind # "none"

\* if proposal.get(key): None, "", [] and {} are all false
Truthy(x) == x.kind # "none" /\ x.v # <<>>

\* separator.join(strs)
RECURSIVE StrJoin(_, _)
StrJoin(separator, strs) ==
    IF strs = <<>> THEN <<>>
    ELSE IF Len(strs) = 1 THEN strs[1]
    ELSE strs[1] \o separator \o StrJoin(separator, Tail(strs))

\* f"{value}" for a str, and ', '.join(sources) for the list of data sources
FormatValue(x) == IF x.kind = "list" THEN StrJoin(<<", ">>, x.v) ELSE x.v

\* parts after the if statements of the fixed fields
FixedParts(proposal_) ==
    LET emitted == SelectSeq(FixedFields, LAMBDA f : Truthy(proposal_[f.key]))
    IN  [i \in 1..Len(emitted) |->
            <<emitted[i].label>> \o FormatValue(proposal_[emitted[i].key])]

\* parts of the loop over additional_fields.items()
AdditionalParts(proposal_) ==
    LET extra == proposal_["additional_fields"]
    IN  IF Truthy(extra)
        THEN [i \in 1..Len(extra.v) |-> <<extra.v[i].key, ": ">> \o extra.v[i].value]
        ELSE <<>>

_format_proposal_text(proposal_) ==
    StrJoin(<<BLANK_LINE>>, FixedParts(proposal_) \o AdditionalParts(proposal_))

\* the proposals formatted: description is a required str, every other
\* field is optional
OptionalText(text) == {None, Str(<<>>), Str(<<text>>)}
Proposals ==
    [proposal_title : OptionalText("Triage assistant"),
     description : {Str(<<>>), Str(<<"Ranks incoming tickets">>)},
     technical_approach : {None, Str(<<"Fine-tuned classifier">>)},
     data_sources : {None, List(<<>>), List(<<<<"tickets">>>>),
                     List(<<<<"tickets">>, <<"logs">>>>), Str(<<"warehouse">>)},
     deployment : {None, Str(<<"Cloud">>)},
     data_governance : {None, Str(<<"Retention 30 days">>)},
     model_governance : {None, Str(<<"Quarterly review">>)},
     security_measures : OptionalText("Encryption at rest"),
     additional_fields :
        {None, Dict(<<>>),
         Dict(<<Item("budget", <<"10k">>)>>),
         Dict(<<Item("notes", <<>>), Item("budget", <<"10k">>)>>),
         Dict(<<Item("budget", <<"10k">>), Item("owner", <<"ops">>)>>)}]

\* the proposal of the pipeline runs
DefaultProposal ==
    [proposal_title |-> None, description |-> Str(<<"Ranks incoming tickets">>),
     technical_approach |-> None, data_sources |-> None, deployment |-> None,
     data_governance |-> None, model_governance |-> None,
     security_measures |-> None, additional_fields |-> None]

NotFormatted == <<"<not formatted>">>

\* ------------------------- two invocations on one engine instance: steps
\* The attributes of the engine after __init__; assess_proposal reads them.
EngineAttrs ==
    [db_client |-> "DatabaseServiceClient", llm_service |-> "GeminiLLMService"]

Invocations == {1, 2}

\* the hash seed of the interpreter an invocation runs in (PYTHONHASHSEED)
HashSeeds == {1, 2}

\* the locals of an invocation before its first statement; tape is the
\* sequence of collaborator replies the invocation has received
NewInvocation(seed) ==
    [pc |-> "start", seed |-> seed, keywords |-> <<>>, candidate_risks |-> <<>>,
     ranking_result |-> <<>>, controls_by_risk |-> <<>>, result |-> <<>>,
     caught |-> NoErr, tape |-> <<>>]

\* variant: the values come in an order that depends on the hash seed
DictValues_HashOrder(all_risks_, seed) ==
    IF seed = 1 THEN all_risks_
    ELSE [i \in 1..Len(all_risks_) |-> all_risks_[Len(all_risks_) + 1 - i]]

\* list(all_risks.values()): a dict keeps insertion order, whatever the
\* hash seed
DictValues(all_risks_, seed) == all_risks_

\* variant: the candidate list is kept in self.candidate_risks
CandidateScope_Attribute == "attribute"

\* candidate_risks = ... binds a local name of assess_proposal
CandidateScope == "local"

\* the binding of candidate_risks: [self, l] after the assignment
StoreCandidates(self, l, risks) ==
    IF CandidateScope = "local"
    THEN [self |-> self, l |-> [l EXCEPT !.candidate_risks = risks]]
    ELSE [self |-> [a \in DOMAIN self \cup {"candidate_risks"} |->
                       IF a = "candidate_risks" THEN risks ELSE self[a]],
          l |-> l]

\* the value the name candidate_risks has for an invocation
LoadCandidates(self, l) ==
    IF CandidateScope = "local" THEN l.candidate_risks
    ELSE IF "candidate_risks" \in DOMAIN self THEN self["candidate_risks"]
    ELSE <<>>

\* the except clause for an invocation
FailInvocation(self, l, e) ==
    [self |-> self,
     l |-> [l EXCEPT !.pc = "done", !.caught = e, !.result = error_assessments(e)]]

\* search_risks as one step: the repository gives the same reply to every
\* query of the call
SearchOutcome(l, reply) == DictValues(MergeResults(<<>>, reply.results), l.seed)

\* the replies two invocations are given: few, and different enough to tell
\* the candidates of one invocation from those of the other
OtherBody == <<AltItem(1), RiskItem(3), RiskItem(2)>>
PairBody == <<RiskItem(1), ControlItem, RiskItem(2)>>
SingleBody == <<RiskItem(1)>>

TwoKeywordReplies ==
    {KwReply("raise", FALSE, FALSE, <<>>, FALSE, FALSE, NoNumber),
     KwReply("json", TRUE, TRUE, <<KwPlain>>, TRUE, TRUE, JsonFloat(9)),
     KwReply("json", TRUE, TRUE, <<KwPlain>>, TRUE, TRUE, JsonInt(2)),
     KwReply("json", TRUE, TRUE, <<KwPlain>>, TRUE, TRUE, JsonBigInt)}

TwoSearchReplies ==
    {[kind |-> "error", results |-> <<>>]}
    \cup {[kind |-> "ok", results |-> b] : b \in {EmptyBody, SmallBody, OtherBody, BigBody, PairBody, SingleBody}}

TwoRankReplies ==
    {[kind |-> "raise", has_risks |-> FALSE, risks |-> <<>>]}
    \cup {[kind |-> "json", has_risks |-> TRUE, risks |-> a] :
            a \in {<<OkEntry(RiskId(1)), OkEntry(RiskId(1)), OkEntry(RiskId(1))>>,
                   <<OkEntry(RiskId(1)), OkEntry(RiskId(2)), OkEntry(RiskId(1))>>,
                   <<OkEntry(RiskId(3)), OkEntry(RiskId(1)), OkEntry(RiskId(2))>>,
                   <<OkEntry(RiskId(1)), OkEntry(RiskId(2))>>}}

NoControlsRequest == [kind |-> "none", data |-> <<>>]

RankedIds(l) == [i \in 1..Len(l.ranking_result) |-> l.ranking_result[i].risk_id]

\* the replies an invocation may receive at its next step; no controls
\* request is sent when an id is rejected
RepliesAt(l) ==
    CASE l.pc = "start" -> TwoKeywordReplies
      [] l.pc \in {"search", "fallback"} -> TwoSearchReplies
      [] l.pc = "rank" -> TwoRankReplies
      [] l.pc = "enrich" /\ AllIdsValid(RankedIds(l)) -> ControlReplies
      [] OTHER -> {NoControlsRequest}

\* one step of assess_proposal, from one external call to the next, on the
\* attributes self and the locals l: [self, l] after the step
InvocationStep(self, l, reply) ==
    CASE l.pc = "start" ->
            LET out == extract_keywords(reply)
            IN  IF out.ok
                THEN [self |-> self,
                      l |-> [l EXCEPT !.keywords = out.value.keywords, !.pc = "search"]]
                ELSE FailInvocation(self, l, out.err)
      [] l.pc = "search" ->
            IF reply.kind = "error"
            THEN FailInvocation(self, l, DBExcept(HTTP_ERROR))
            ELSE IF NeedsFallback(SearchOutcome(l, reply))
            THEN [self |-> self, l |-> [l EXCEPT !.pc = "fallback"]]
            ELSE LET bound == StoreCandidates(self, l, SearchOutcome(l, reply))
                 IN  [self |-> bound.self, l |-> [bound.l EXCEPT !.pc = "rank"]]
      [] l.pc = "fallback" ->
            LET risks == IF reply.kind = "error" THEN <<>> ELSE SearchOutcome(l, reply)
                bound == StoreCandidates(self, l, risks)
            IN  [self |-> bound.self, l |-> [bound.l EXCEPT !.pc = "rank"]]
      [] l.pc = "rank" ->
            LET out == rank_and_select(LoadCandidates(self, l), reply)
            IN  IF out.ok
                THEN [self |-> self,
                      l |-> [l EXCEPT !.ranking_result = out.value, !.pc = "enrich"]]
                ELSE FailInvocation(self, l, out.err)
      [] l.pc = "enrich" ->
            IF ~AllIdsValid(RankedIds(l))
            THEN FailInvocation(self, l, FirstInvalidId(RankedIds(l)))
            ELSE IF reply.kind = "error"
            THEN FailInvocation(self, l, DBExcept(HTTP_ERROR))
            ELSE LET controls == ControlsByRisk(RankedIds(l), reply.data)
                 IN  [self |-> self,
                      l |-> [l EXCEPT !.controls_by_risk = controls,
                                      !.pc = "done",
                                      !.result = PadAssessments(JoinAssessments(
                                          l.ranking_result, LoadCandidates(self, l),
                                          controls))]]
      [] OTHER -> [self |-> self, l |-> l]

\* ------------------------------------------- keywords given to search_risks
\* Keyword strings with characters of every class: quotes and semicolons,
\* letters and digits beyond ASCII, whitespace within and beyond ASCII, and
\* a keyword that stays longer than SANITIZED_MAX_LEN when filtered.
KwInjection == <<"'", ";", "D", "R", "O", "P", " ", "-", "-", "%">>
KwUnicode == <<"r", "<U+00E9>", "_", "<U+0663>", NO_BREAK_SPACE, "\t", "Z", "9">>
KwLong == [i \in 1..(SANITIZED_MAX_LEN + 20) |-> IF i % 10 = 0 THEN ";" ELSE "x"]
KwPunctuation == <<";", "'", "%">>
KeywordStrings == {KwPlain, KwDirty, KwLate, KwInjection, KwUnicode, KwLong, KwPunctuation}
KeywordInputs == SeqsOf(KeywordStrings, 0, 2)

\* the requests of the call are not sent yet
NotSent == <<<<"<not sent>">>>>

\* ------------------------------------------------------------------ state
VARIABLES
    pc,                 \* where the run of assess_proposal stands
    keyword_result,     \* what extract_keywords returned
    sanitized_keywords, \* search_risks: the sanitised keywords of this call
    idx,                \* search_risks: position of the next keyword queried
    all_risks,          \* search_risks: the risks merged so far
    responses,          \* search_risks: the results arrays received by the
                        \* call in progress or just returned
    candidate_risks,    \* assess_proposal: the candidate list
    ranking_result,     \* what rank_and_select returned (its risks)
    controls_by_risk,   \* what get_controls_for_risks returned
    result,             \* the risks of the returned RiskAssessmentResult
    escaped,            \* an exception left assess_proposal
    caught,             \* the exception the except clause received
    raisedLog,          \* every exception raised to assess_proposal or to
                        \* _get_fallback_risks, in order
    extractCalls,       \* keyword requests sent to the generation service
    keywordReply,       \* the reply to the keyword request
    searchLog,          \* the GET /api/search requests: [phase, q]
    primaryResult,      \* outcome of search_risks(keywords)
    fallbackCalls,      \* calls of _get_fallback_risks
    fallbackResult,     \* outcome of search_risks(fallback_keywords)
    rankLog,            \* the candidate lists listed in ranking requests
    rankReply,          \* the reply to the ranking request
    controlsLog,        \* the id lists of GET /api/relationships requests
    engine,             \* the attributes of the engine instance (self)
    invocation,         \* two invocations of assess_proposal on that
                        \* instance: the locals of each
    proposal,           \* the proposal dict given to assess_proposal
    proposal_text,      \* the text _format_proposal_text returned for it
    search_keywords,    \* the keywords argument of a call of search_risks
    queries,            \* the q values that call sends to /api/search
    resanitized         \* those values sanitised once more

\* the locals and the history of the single run
runVars ==
    <<pc, keyword_result, sanitized_keywords, idx, all_risks, responses,
      candidate_risks, ranking_result, controls_by_risk, result, escaped,
      caught, raisedLog, extractCalls, keywordReply, searchLog, primaryResult,
      fallbackCalls, fallbackResult, rankLog, rankReply, controlsLog>>

\* the instance and the two invocations that share it
twoVars == <<engine, invocation>>

\* the proposal and its text
formatVars == <<proposal, proposal_text>>

\* a call of search_risks seen from its requests
sanitizeVars == <<search_keywords, queries, resanitized>>

\* no call of search_risks is looked at
NoSearchCall == search_keywords = <<>> /\ queries = NotSent /\ resanitized = NotSent

vars == <<runVars, twoVars, formatVars, sanitizeVars>>

searchVars == <<sanitized_keywords, idx, all_risks>>
historyVars ==
    <<extractCalls, keywordReply, searchLog, responses, primaryResult,
      fallbackCalls, fallbackResult, rankLog, rankReply, controlsLog>>

NotCalled == [status |-> "none", risks |-> <<>>]
Running == [status |-> "running", risks |-> <<>>]
SearchReturned(risks) == [status |-> "returned", risks |-> risks]
SearchRaised == [status |-> "raised", risks |-> <<>>]

InitRun ==
    /\ pc = "start"
    /\ keyword_result = KeywordExtractionResult(<<>>, 0)
    /\ sanitized_keywords = <<>>
    /\ idx = 0
    /\ all_risks = <<>>
    /\ responses = <<>>
    /\ candidate_risks = <<>>
    /\ ranking_result = <<>>
    /\ controls_by_risk = <<>>
    /\ result = <<>>
    /\ escaped = FALSE
    /\ caught = NoErr
    /\ raisedLog = <<>>
    /\ extractCalls = 0
    /\ keywordReply = NoKwReply
    /\ searchLog = <<>>
    /\ primaryResult = NotCalled
    /\ fallbackCalls = 0
    /\ fallbackResult = NotCalled
    /\ rankLog = <<>>
    /\ rankReply = NoReply
    /\ controlsLog = <<>>

\* the single run: the two invocations are not started
Init ==
    /\ InitRun
    /\ engine = EngineAttrs
    /\ invocation = [r \in Invocations |-> NewInvocation(1)]
    /\ proposal = DefaultProposal
    /\ proposal_text = NotFormatted
    /\ NoSearchCall

\* search_risks returns or raises: its locals are gone
SearchEnds ==
    /\ sanitized_keywords' = <<>>
    /\ idx' = 0
    /\ all_risks' = <<>>

\* variant: on an exception the run is started again
Handle_Retry(e) ==
    /\ pc' = "start"
    /\ raisedLog' = Append(raisedLog, e)
    /\ UNCHANGED <<caught, result, escaped>>

\* an exception e reaches the try block of assess_proposal
Handle(e) ==
    /\ pc' = "done"
    /\ raisedLog' = Append(raisedLog, e)
    /\ IF EngineCatches(e)
       THEN /\ caught' = e
            /\ result' = error_assessments(e)
            /\ escaped' = FALSE
       ELSE /\ caught' = caught
            /\ result' = result
            /\ escaped' = TRUE

\* the return of assess_proposal on the success path
Return(assessments) ==
    /\ pc' = "done"
    /\ result' = assessments
    /\ UNCHANGED <<escaped, caught, raisedLog>>

\* Stage 1: the keyword request and its validation; on success search_risks
\* is entered and sanitises the keywords
ExtractKeywords ==
    /\ pc = "start"
    /\ \E reply \in KeywordReplies :
          LET out == extract_keywords(reply)
          IN  /\ extractCalls' = extractCalls + 1
              /\ keywordReply' = reply
              /\ IF out.ok
                 THEN /\ keyword_result' = out.value
                      /\ sanitized_keywords' = SanitizedKeywords(out.value.keywords)
                      /\ idx' = 1
                      /\ all_risks' = <<>>
                      /\ primaryResult' = Running
                      /\ pc' = "search"
                      /\ UNCHANGED <<result, escaped, caught, raisedLog>>
                 ELSE /\ Handle(out.err)
                      /\ UNCHANGED <<keyword_result, searchVars, primaryResult>>
    /\ UNCHANGED <<responses, candidate_risks, ranking_result, controls_by_risk,
                   searchLog, fallbackCalls, fallbackResult, rankLog, rankReply,
                   controlsLog>>
    /\ UNCHANGED <<twoVars, formatVars, sanitizeVars>>

\* Stage 2: one GET /api/search of search_risks(keywords); after the last
\* keyword the list is returned and the fallback is entered when it is empty
SearchRisks ==
    /\ pc = "search"
    /\ \E reply \in SearchReplies :
          LET queried == KeywordsToSearch(sanitized_keywords)
              merged == MergeResults(all_risks, reply.results)
          IN  /\ searchLog' = Append(searchLog, [phase |-> "primary", q |-> queried[idx]])
              /\ IF reply.kind = "error"
                 THEN /\ primaryResult' = SearchRaised
                      /\ SearchEnds
                      /\ responses' = <<>>
                      /\ Handle(DBExcept(HTTP_ERROR))
                      /\ UNCHANGED <<candidate_risks, fallbackCalls, fallbackResult>>
                 ELSE IF idx < Len(queried)
                 THEN /\ all_risks' = merged
                      /\ responses' = Append(responses, reply.results)
                      /\ idx' = idx + 1
                      /\ UNCHANGED <<pc, sanitized_keywords, candidate_risks, result,
                                     escaped, caught, raisedLog, primaryResult,
                                     fallbackCalls, fallbackResult>>
                 ELSE IF NeedsFallback(merged)
                 THEN /\ primaryResult' = SearchReturned(merged)
                      /\ fallbackCalls' = fallbackCalls + 1
                      /\ fallbackResult' = Running
                      /\ sanitized_keywords' = SanitizedKeywords(FALLBACK_KEYWORDS)
                      /\ idx' = 1
                      /\ all_risks' = <<>>
                      /\ responses' = <<>>
                      /\ pc' = "fallback"
                      /\ UNCHANGED <<candidate_risks, result, escaped, caught, raisedLog>>
                 ELSE /\ primaryResult' = SearchReturned(merged)
                      /\ SearchEnds
                      /\ responses' = Append(responses, reply.results)
                      /\ candidate_risks' = merged
                      /\ pc' = "rank"
                      /\ UNCHANGED <<result, escaped, caught, raisedLog, fallbackCalls,
                                     fallbackResult>>
    /\ UNCHANGED <<keyword_result, ranking_result, controls_by_risk, extractCalls,
                   keywordReply, rankLog, rankReply, controlsLog>>
    /\ UNCHANGED <<twoVars, formatVars, sanitizeVars>>

\* _get_fallback_risks: one GET /api/search of search_risks(fallback_keywords);
\* an exception of the search is caught there and [] is returned
FallbackSearch ==
    /\ pc = "fallback"
    /\ \E reply \in SearchReplies :
          LET queried == KeywordsToSearch(sanitized_keywords)
              merged == MergeResults(all_risks, reply.results)
          IN  /\ searchLog' = Append(searchLog, [phase |-> "fallback", q |-> queried[idx]])
              /\ IF reply.kind = "error"
                 THEN /\ fallbackResult' = SearchRaised
                      /\ raisedLog' = Append(raisedLog, DBExcept(HTTP_ERROR))
                      /\ SearchEnds
                      /\ responses' = <<>>
                      /\ candidate_risks' = <<>>
                      /\ pc' = "rank"
                 ELSE IF idx < Len(queried)
                 THEN /\ all_risks' = merged
                      /\ responses' = Append(responses, reply.results)
                      /\ idx' = idx + 1
                      /\ UNCHANGED <<pc, sanitized_keywords, candidate_risks, raisedLog,
                                     fallbackResult>>
                 ELSE /\ fallbackResult' = SearchReturned(merged)
                      /\ SearchEnds
                      /\ responses' = Append(responses, reply.results)
                      /\ candidate_risks' = merged
                      /\ pc' = "rank"
                      /\ UNCHANGED raisedLog
    /\ UNCHANGED <<keyword_result, ranking_result, controls_by_risk, result,
                   escaped, caught, extractCalls, keywordReply, primaryResult,
                   fallbackCalls, rankLog, rankReply, controlsLog>>
    /\ UNCHANGED <<twoVars, formatVars, sanitizeVars>>

\* Stage 3: the ranking request on the limited candidate list and the
\* validation of its reply; the replies of the search are no longer kept
RankAndSelect ==
    /\ pc = "rank"
    /\ \E reply \in RankReplies :
          LET out == rank_and_select(candidate_risks, reply)
          IN  /\ rankLog' = Append(rankLog, LimitCandidates(candidate_risks))
              /\ responses' = <<>>
              /\ rankReply' = reply
              /\ IF out.ok
                 THEN /\ ranking_result' = out.value
                      /\ pc' = "enrich"
                      /\ UNCHANGED <<result, escaped, caught, raisedLog>>
                 ELSE /\ Handle(out.err)
                      /\ UNCHANGED ranking_result
    /\ UNCHANGED <<keyword_result, searchVars, candidate_risks, controls_by_risk,
                   extractCalls, keywordReply, searchLog, primaryResult,
                   fallbackCalls, fallbackResult, controlsLog>>
    /\ UNCHANGED <<twoVars, formatVars, sanitizeVars>>

\* Stages 4 and 5: the ids are validated, the controls are requested, and the
\* result is joined, padded and returned
EnrichAndAssemble ==
    /\ pc = "enrich"
    /\ LET risk_ids == [i \in 1..Len(ranking_result) |-> ranking_result[i].risk_id]
       IN  IF ~AllIdsValid(risk_ids)
           THEN /\ Handle(FirstInvalidId(risk_ids))
                /\ UNCHANGED <<controls_by_risk, controlsLog>>
           ELSE \E reply \in ControlReplies :
                   /\ controlsLog' = Append(controlsLog, risk_ids)
                   /\ IF reply.kind = "error"
                      THEN /\ Handle(DBExcept(HTTP_ERROR))
                           /\ UNCHANGED controls_by_risk
                      ELSE LET controls == ControlsByRisk(risk_ids, reply.data)
                           IN  /\ controls_by_risk' = controls
                               /\ Return(PadAssessments(
                                      JoinAssessments(ranking_result, candidate_risks,
                                                      controls)))
    /\ UNCHANGED <<keyword_result, searchVars, responses, candidate_risks,
                   ranking_result, extractCalls, keywordReply, searchLog,
                   primaryResult, fallbackCalls, fallbackResult, rankLog,
                   rankReply>>
    /\ UNCHANGED <<twoVars, formatVars, sanitizeVars>>

Next ==
    \/ ExtractKeywords
    \/ SearchRisks
    \/ FallbackSearch
    \/ RankAndSelect
    \/ EnrichAndAssemble

Spec == Init /\ [][Next]_vars

\* ============================================ injected collaborators
\* RiskAssessmentEngine(db_client, llm_service) takes any two collaborators
\* (test_engine.py passes a MockDBClient): here both are stubs that return
\* or raise whatever they like, and the steps are those of assess_proposal
\* alone.
StubError == Err("RuntimeError", <<"stub failure">>)

\* what a stub extract_keywords returns
StubKeywordResults ==
    {KeywordExtractionResult(<<KwPlain>>, 9), KeywordExtractionResult(<<>>, 15)}

\* what a stub search_risks returns: nothing, two risks, or a list in which
\* an id comes twice
StubCandidateLists ==
    {<<>>,
     <<Risk(RiskId(1), <<"Title ", "1">>, <<"Desc ", "1">>),
       Risk(RiskId(2), <<"Title ", "2">>, <<"Desc ", "2">>)>>,
     <<Risk(RiskId(2), <<"Title ", "2">>, <<"Desc ", "2">>),
       Risk(RiskId(1), <<"Title ", "1">>, <<"Desc ", "1">>),
       Risk(RiskId(1), <<"Alt title">>, <<"Alt desc">>)>>}

\* the decisions of a stub rank_and_select: two known risks, one of them
\* with two different reasonings, and a risk no candidate list holds
UnknownId == RiskId(7)
AgainEntry(risk_id) == RankEntry(TRUE, risk_id, TRUE, <<"again ">> \o risk_id)
NoReasoningEntry == RankEntry(TRUE, RiskId(1), FALSE, <<>>)
StubEntryChoices ==
    {OkEntry(RiskId(1)), AgainEntry(RiskId(1)), OkEntry(RiskId(2)), OkEntry(UnknownId)}

StubRankings ==
    SeqsOf(StubEntryChoices, 0, TOP_N_RISKS + MaxExtraRisks)
    \cup {<<OkEntry(RiskId(1)), NoIdEntry, OkEntry(RiskId(2))>>,
          <<OkEntry(RiskId(2)), OkEntry(RiskId(1)), NoReasoningEntry>>}

\* what a stub get_controls_for_risks returns: a mapping without entries,
\* with an entry for one risk, or with entries for both
StubControl(n) == Control(<<"C.AIIM.">> \o IntStr(n), <<"Control ">>, <<"Stub">>)
StubMappings ==
    {<<>>,
     (RiskId(1) :> <<StubControl(1), StubControl(2)>>),
     (RiskId(1) :> <<StubControl(1)>>) @@ (RiskId(2) :> <<>>)}

\* r["risk_id"] and ranked_risk["reasoning"] on a dict without the key
KEY_ERROR_RISK_ID == Err("KeyError", <<"'risk_id'">>)
KEY_ERROR_REASONING == Err("KeyError", <<"'reasoning'">>)

\* Stage 1 with a stub llm_service
InjectedExtractKeywords ==
    /\ pc = "start"
    /\ extractCalls' = extractCalls + 1
    /\ \/ \E kr \in StubKeywordResults :
             /\ keyword_result' = kr
             /\ primaryResult' = Running
             /\ pc' = "search"
             /\ UNCHANGED <<result, escaped, caught, raisedLog>>
       \/ /\ Handle(StubError)
          /\ UNCHANGED <<keyword_result, primaryResult>>
    /\ UNCHANGED <<searchVars, responses, candidate_risks, ranking_result,
                   controls_by_risk, keywordReply, searchLog, fallbackCalls,
                   fallbackResult, rankLog, rankReply, controlsLog>>
    /\ UNCHANGED <<twoVars, formatVars, sanitizeVars>>

\* Stage 2 with a stub db_client: search_risks(keywords) is one call
InjectedSearchRisks ==
    /\ pc = "search"
    /\ \/ \E risks \in StubCandidateLists :
             /\ primaryResult' = SearchReturned(risks)
             /\ IF NeedsFallback(risks)
                THEN /\ fallbackCalls' = fallbackCalls + 1
                     /\ fallbackResult' = Running
                     /\ pc' = "fallback"
                     /\ UNCHANGED candidate_risks
                ELSE /\ candidate_risks' = risks
                     /\ pc' = "rank"
                     /\ UNCHANGED <<fallbackCalls, fallbackResult>>
             /\ UNCHANGED <<result, escaped, caught, raisedLog>>
       \/ /\ primaryResult' = SearchRaised
          /\ Handle(StubError)
          /\ UNCHANGED <<candidate_risks, fallbackCalls, fallbackResult>>
    /\ UNCHANGED <<keyword_result, searchVars, responses, ranking_result,
                   controls_by_risk, extractCalls, keywordReply, searchLog, rankLog,
                   rankReply, controlsLog>>
    /\ UNCHANGED <<twoVars, formatVars, sanitizeVars>>

\* _get_fallback_risks with a stub db_client
InjectedFallbackSearch ==
    /\ pc = "fallback"
    /\ \/ \E risks \in StubCandidateLists :
             /\ fallbackResult' = SearchReturned(risks)
             /\ candidate_risks' = risks
             /\ UNCHANGED raisedLog
       \/ /\ fallbackResult' = SearchRaised
          /\ raisedLog' = Append(raisedLog, StubError)
          /\ candidate_risks' = <<>>
    /\ pc' = "rank"
    /\ UNCHANGED <<keyword_result, searchVars, responses, ranking_result,
                   controls_by_risk, result, escaped, caught, extractCalls,
                   keywordReply, searchLog, primaryResult, fallbackCalls, rankLog,
                   rankReply, controlsLog>>
    /\ UNCHANGED <<twoVars, formatVars, sanitizeVars>>

\* Stage 3 with a stub llm_service: whatever it returns is taken as it is
InjectedRankAndSelect ==
    /\ pc = "rank"
    /\ rankLog' = Append(rankLog, candidate_risks)
    /\ \/ \E ranked \in StubRankings :
             /\ ranking_result' = ranked
             /\ pc' = "enrich"
             /\ UNCHANGED <<result, escaped, caught, raisedLog>>
       \/ /\ Handle(StubError)
          /\ UNCHANGED ranking_result
    /\ UNCHANGED <<keyword_result, searchVars, responses, candidate_risks,
                   controls_by_risk, extractCalls, keywordReply, searchLog,
                   primaryResult, fallbackCalls, fallbackResult, rankReply,
                   controlsLog>>
    /\ UNCHANGED <<twoVars, formatVars, sanitizeVars>>

\* Stages 4 and 5 with a stub db_client: the ids are read from the
\* decisions, the stub is asked for the controls, the decisions are joined
\* with the candidates, and the list is padded and returned
InjectedEnrichAndAssemble ==
    /\ pc = "enrich"
    /\ IF \E i \in 1..Len(ranking_result) : ~ranking_result[i].has_risk_id
       THEN /\ Handle(KEY_ERROR_RISK_ID)
            /\ UNCHANGED <<controls_by_risk, controlsLog>>
       ELSE /\ controlsLog' =
                 Append(controlsLog,
                        [i \in 1..Len(ranking_result) |-> ranking_result[i].risk_id])
            /\ \/ \E controls \in StubMappings :
                     /\ controls_by_risk' = controls
                     /\ IF \E i \in 1..Len(ranking_result) :
                              ~ranking_result[i].has_reasoning
                        THEN Handle(KEY_ERROR_REASONING)
                        ELSE Return(PadAssessments(
                                 JoinAssessments(ranking_result, candidate_risks,
                                                 controls)))
               \/ /\ Handle(StubError)
                  /\ UNCHANGED controls_by_risk
    /\ UNCHANGED <<keyword_result, searchVars, responses, candidate_risks,
                   ranking_result, extractCalls, keywordReply, searchLog,
                   primaryResult, fallbackCalls, fallbackResult, rankLog, rankReply>>
    /\ UNCHANGED <<twoVars, formatVars, sanitizeVars>>

NextInjected ==
    \/ InjectedExtractKeywords
    \/ InjectedSearchRisks
    \/ InjectedFallbackSearch
    \/ InjectedRankAndSelect
    \/ InjectedEnrichAndAssemble

SpecInjected == Init /\ [][NextInjected]_vars

\* the single run when every external call eventually returns or raises:
\* a step that is possible is eventually taken
SpecLive == Init /\ [][Next]_vars /\ WF_vars(Next)

\* ================================ two invocations on one engine instance
\* Both invocations run on the same instance and are interleaved step by
\* step; each draws its own replies and its own hash seed.
InitTwo ==
    /\ InitRun
    /\ engine = EngineAttrs
    /\ invocation \in [Invocations -> {NewInvocation(seed) : seed \in HashSeeds}]
    /\ proposal = DefaultProposal
    /\ proposal_text = NotFormatted
    /\ NoSearchCall

\* assess_proposal run alone on a fresh instance with the replies of tape:
\* [self, l] after the last reply
RECURSIVE Replay(_, _, _)
Replay(self, l, tape) ==
    IF tape = <<>> THEN [self |-> self, l |-> l]
    ELSE LET after == InvocationStep(self, l, Head(tape))
         IN  Replay(after.self, after.l, Tail(tape))

\* invocation r takes its next step
Invoke(r) ==
    /\ invocation[r].pc # "done"
    /\ \E reply \in RepliesAt(invocation[r]) :
          LET after == InvocationStep(engine, invocation[r], reply)
          IN  /\ engine' = after.self
              /\ invocation' =
                    [invocation EXCEPT
                        ![r] = [after.l EXCEPT !.tape = Append(@, reply)]]
    /\ UNCHANGED <<runVars, formatVars, sanitizeVars>>

NextTwo == Invoke(1) \/ Invoke(2)

SpecTwo == InitTwo /\ [][NextTwo]_vars

\* ===================================================== proposal formatting
\* _format_proposal_text applied to each proposal of Proposals.
InitFormat ==
    /\ InitRun
    /\ engine = EngineAttrs
    /\ invocation = [r \in Invocations |-> NewInvocation(1)]
    /\ proposal \in Proposals
    /\ proposal_text = NotFormatted
    /\ NoSearchCall

FormatProposalText ==
    /\ proposal_text = NotFormatted
    /\ proposal_text' = _format_proposal_text(proposal)
    /\ UNCHANGED <<runVars, twoVars, proposal, sanitizeVars>>

NextFormat == FormatProposalText

SpecFormat == InitFormat /\ [][NextFormat]_vars

\* ====================================================== keyword sanitisation
\* search_risks called with each keyword list of KeywordInputs: the q values
\* of its requests, and what _sanitize_keyword makes of them.
InitSanitize ==
    /\ InitRun
    /\ engine = EngineAttrs
    /\ invocation = [r \in Invocations |-> NewInvocation(1)]
    /\ proposal = DefaultProposal
    /\ proposal_text = NotFormatted
    /\ search_keywords \in KeywordInputs
    /\ queries = NotSent
    /\ resanitized = NotSent

\* lines 39 and 43: the values of the params of the requests
SendQueries ==
    /\ queries = NotSent
    /\ queries' = KeywordsToSearch(SanitizedKeywords(search_keywords))
    /\ UNCHANGED <<runVars, twoVars, formatVars, search_keywords, resanitized>>

\* the values sent are given to _sanitize_keyword again
SanitizeAgain ==
    /\ queries # NotSent
    /\ resanitized = NotSent
    /\ resanitized' = SanitizedKeywords(queries)
    /\ UNCHANGED <<runVars, twoVars, formatVars, search_keywords, queries>>

NextSanitize == SendQueries \/ SanitizeAgain

SpecSanitize == InitSanitize /\ [][NextSanitize]_vars

\* ================================================================ properties
Done == pc = "done"

\* the candidate list named in the ranking request of this run
Offered == rankLog[Len(rankLog)]

OfferedIds == {Offered[j].risk_id : j \in 1..Len(Offered)}

AllErrorEntries ==
    /\ Len(result) = TOP_N_RISKS
    /\ \A i \in 1..Len(result) : result[i].risk_id = ERROR_ID

PrimaryQueries ==
    LET IsPrimary(r) == r.phase = "primary" IN SelectSeq(searchLog, IsPrimary)

FallbackQueries ==
    LET IsFallback(r) == r.phase = "fallback" IN SelectSeq(searchLog, IsFallback)

\* C1: whatever the collaborators replied or raised, the risks list of the
\* returned result has exactly TOP_N_RISKS entries.
C1_ShapeInvariant == Done => Len(result) = TOP_N_RISKS

\* a run that succeeded on candidates merged from two different replies
C1_Witness ==
    /\ Done
    /\ raisedLog = <<>>
    /\ Len(candidate_risks) > MAX_CANDIDATE_RISKS + 1
    /\ Len(result) = TOP_N_RISKS

\* C2: every entry of the result whose risk_id is neither "ERROR" nor "N/A"
\* names a candidate of the list the ranking request of the run listed
\* (the list after the cut to MAX_CANDIDATE_RISKS).
C2_AntiHallucination ==
    Done =>
        \A i \in 1..Len(result) :
            result[i].risk_id \notin {ERROR_ID, NA_ID} =>
                /\ rankLog # <<>>
                /\ result[i].risk_id \in OfferedIds

\* a successful run whose candidate list was cut before ranking
C2_Witness ==
    /\ Done
    /\ Len(candidate_risks) > MAX_CANDIDATE_RISKS
    /\ Len(result) = TOP_N_RISKS
    /\ result[1].risk_id = RiskId(2)
    /\ result[2].risk_id = RiskId(1)

\* C3: no exception leaves assess_proposal; every error raised by a stage is
\* received by its except clause and the call still returns a result.
C3_NoExceptionEscapes ==
    /\ ~escaped
    /\ (Done /\ raisedLog # <<>>) =>
          /\ caught = raisedLog[Len(raisedLog)]
          /\ result # <<>>

\* a run that ended on the exception extract_keywords raises for non-JSON text
C3_Witness ==
    /\ Done
    /\ caught = Err("Exception", <<"Invalid JSON response from LLM">>)
    /\ extractCalls = 1
    /\ searchLog = <<>>

\* C4: when a stage raised, the result is TOP_N_RISKS identical entries with
\* risk_id "ERROR", title "Assessment Error", the fixed description, no
\* controls, and an explanation that contains the message of the error the
\* except clause received.
C4_UniformDegradation ==
    (Done /\ raisedLog # <<>>) =>
        /\ Len(result) = TOP_N_RISKS
        /\ caught = raisedLog[Len(raisedLog)]
        /\ caught.msg # <<>>
        /\ \A i \in 1..Len(result) :
              /\ result[i] = result[1]
              /\ result[i].risk_id = <<"E", "R", "R", "O", "R">>
              /\ result[i].risk_title = <<"Assessment Error">>
              /\ result[i].risk_description = <<"An error occurred during risk assessment">>
              /\ result[i].controls = <<>>
              /\ Contains(result[i].explanation, caught.msg)

\* the controls lookup failed after keywords, candidates and ranking succeeded
C4_Witness ==
    /\ Done
    /\ controlsLog # <<>>
    /\ caught = Err("Exception", <<"Database service unavailable: ", "503 Server Error">>)

\* C5: either every entry of the result is an "ERROR" entry or none is.
C5_NoPartialResults ==
    Done =>
        \/ \A i \in 1..Len(result) : result[i].risk_id = ERROR_ID
        \/ \A i \in 1..Len(result) : result[i].risk_id # ERROR_ID

\* ranking selected two well-formed candidates and one whose id the controls
\* lookup rejects: the two good ones are not returned
C5_Witness ==
    /\ Done
    /\ Len(ranking_result) = TOP_N_RISKS
    /\ ranking_result[1].risk_id = RiskId(1)
    /\ ranking_result[2].risk_id = RiskId(2)
    /\ ranking_result[3].risk_id = ERROR_ID
    /\ AllErrorEntries

\* the ranking reply has an entry whose risk_id is no candidate of the request
HallucinatedReply ==
    /\ rankReply.kind = "json"
    /\ rankReply.has_risks
    /\ \E i \in 1..Len(rankReply.risks) :
          /\ rankReply.risks[i].has_risk_id
          /\ rankReply.risks[i].risk_id \notin OfferedIds

\* C6: a ranking reply with an entry naming a risk_id that is no candidate of
\* that request makes rank_and_select fail; the run returns TOP_N_RISKS
\* "ERROR" entries and none of the reply's entries.
C6_HallucinationFatal ==
    (rankLog # <<>> /\ HallucinatedReply) =>
        /\ Done
        /\ ranking_result = <<>>
        /\ controlsLog = <<>>
        /\ AllErrorEntries

\* two valid entries and one unknown id, in a reply of the right length
C6_Witness ==
    /\ Done
    /\ rankLog # <<>>
    /\ Len(Offered) > 0
    /\ Len(rankReply.risks) = TOP_N_RISKS
    /\ rankReply.risks[1] = OkEntry(RiskId(1))
    /\ rankReply.risks[2] = OkEntry(RiskId(2))
    /\ rankReply.risks[3] = OkEntry(BeyondId)
    /\ RiskId(1) \in OfferedIds
    /\ RiskId(2) \in OfferedIds
    /\ BeyondId \notin OfferedIds

\* C7: a ranking reply whose risks array has a length other than TOP_N_RISKS
\* makes rank_and_select fail; the run returns TOP_N_RISKS "ERROR" entries,
\* the reply is neither cut nor padded.
C7_CountMismatchFatal ==
    (rankReply.kind = "json" /\ rankReply.has_risks
        /\ Len(rankReply.risks) # TOP_N_RISKS) =>
        /\ Done
        /\ ranking_result = <<>>
        /\ controlsLog = <<>>
        /\ AllErrorEntries
        /\ caught.msg = <<"Expected ", "3", " risks, got ">> \o IntStr(Len(rankReply.risks))

\* a reply with TOP_N_RISKS + 1 entries that all name a candidate
C7_Witness ==
    /\ Done
    /\ Len(rankReply.risks) = TOP_N_RISKS + 1
    /\ \A i \in 1..Len(rankReply.risks) : rankReply.risks[i].risk_id \in OfferedIds

\* C8: when the search on the extracted keywords and the fallback search both
\* return no candidates, no ranking request is sent in that run.
C8_EmptyCandidatesSkipRanking ==
    (primaryResult = SearchReturned(<<>>) /\ fallbackResult = SearchReturned(<<>>)) =>
        rankLog = <<>>

\* C9: the fallback search is made exactly once when the first search
\* returned no candidates and never otherwise, and what it returns is what
\* the ranking request lists.
C9_FallbackIffEmpty ==
    /\ fallbackCalls <= 1
    /\ fallbackCalls = 1 <=> primaryResult = SearchReturned(<<>>)
    /\ fallbackCalls = 0 => (FallbackQueries = <<>> /\ fallbackResult = NotCalled)
    /\ (primaryResult.status = "returned" /\ primaryResult.risks # <<>>) =>
          /\ fallbackCalls = 0
          /\ candidate_risks = primaryResult.risks
    /\ (rankLog # <<>> /\ fallbackResult.status = "returned") =>
          Offered = Take(fallbackResult.risks, MAX_CANDIDATE_RISKS)
    /\ (rankLog # <<>> /\ fallbackResult.status = "raised") => Offered = <<>>

\* the first search returned nothing and the fallback search found risks
C9_Witness ==
    /\ rankLog # <<>>
    /\ primaryResult = SearchReturned(<<>>)
    /\ fallbackResult.status = "returned"
    /\ Len(fallbackResult.risks) > 0
    /\ Offered = fallbackResult.risks

\* C10: the queries of the search on the extracted keywords are the
\* sanitised first three keywords, in order, one query each; a fourth or
\* later keyword is not queried.
C10_KeywordTruncation ==
    LET keywords == keyword_result.keywords
    IN  /\ Len(PrimaryQueries) <= 3
        /\ Len(PrimaryQueries) <= Len(keywords)
        /\ \A i \in 1..Len(PrimaryQueries) :
              PrimaryQueries[i].q = _sanitize_keyword(keywords[i])
        /\ primaryResult.status = "returned" =>
              Len(PrimaryQueries) = Min(3, Len(keywords))
        /\ \A i \in 1..Len(searchLog) :
              /\ searchLog[i].q # _sanitize_keyword(KwLate)
              /\ searchLog[i].q # KwLate

\* four keywords were extracted, the fourth differs from the first three,
\* the first was sanitised, and the search returned
C10_Witness ==
    /\ Len(keyword_result.keywords) = 4
    /\ keyword_result.keywords[4] = KwLate
    /\ keyword_result.keywords[1] = KwDirty
    /\ primaryResult.status = "returned"
    /\ Len(PrimaryQueries) = 3
    /\ PrimaryQueries[1].q = <<"a", "i", " ", "-", "1">>

\* the ranking reply is a JSON object whose risks array has TOP_N_RISKS
\* entries, each with risk_id and reasoning
WellFormedRanking ==
    /\ rankReply.kind = "json"
    /\ rankReply.has_risks
    /\ Len(rankReply.risks) = TOP_N_RISKS
    /\ \A i \in 1..Len(rankReply.risks) :
          rankReply.risks[i].has_risk_id /\ rankReply.risks[i].has_reasoning

\* C11: when rank_and_select receives more than 30 candidates, the ranking
\* request lists exactly the first 30 of them in their order, and a
\* well-formed reply is accepted exactly when each of its ids is the id of
\* one of those 30; a list of 30 or fewer candidates is listed and used
\* unchanged.
C11_CandidateTruncation ==
    rankLog # <<>> =>
        LET n == IF Len(candidate_risks) > 30 THEN 30 ELSE Len(candidate_risks)
            used == [i \in 1..n |-> candidate_risks[i]]
        IN  /\ Len(rankLog) = 1
            /\ rankLog[1] = used
            /\ Len(candidate_risks) <= 30 => rankLog[1] = candidate_risks
            /\ WellFormedRanking =>
                  (ranking_result = rankReply.risks
                     <=> \A i \in 1..Len(rankReply.risks) :
                            \E j \in 1..n :
                                candidate_risks[j].risk_id = rankReply.risks[i].risk_id)
            /\ WellFormedRanking => ranking_result \in {<<>>, rankReply.risks}

\* 32 candidates were received, the request listed 30 and a reply naming
\* two of them was accepted
C11_Witness ==
    /\ Len(candidate_risks) = MAX_CANDIDATE_RISKS + 2
    /\ Len(rankLog) = 1
    /\ Len(rankLog[1]) = MAX_CANDIDATE_RISKS
    /\ Len(ranking_result) = TOP_N_RISKS
    /\ ranking_result[1].risk_id = RiskId(2)
    /\ rankLog[1][MAX_CANDIDATE_RISKS].risk_id = candidate_risks[MAX_CANDIDATE_RISKS].risk_id

\* the risk items of the k-th results array the search call received
RiskItemsOf(k) ==
    LET IsRisk(item) == item.type = "risk"
    IN  IF k <= Len(responses) THEN SelectSeq(responses[k], IsRisk) ELSE <<>>

\* every risk item the search call received, in the order of arrival
ReceivedRisks == RiskItemsOf(1) \o RiskItemsOf(2) \o RiskItemsOf(3)

\* the list the search call has merged so far, or has just returned
MergedList == IF pc \in {"search", "fallback"} THEN all_risks ELSE candidate_risks

PairwiseDistinctIds(risks) ==
    Cardinality({risks[i].risk_id : i \in 1..Len(risks)}) = Len(risks)

\* C12: the list search_risks builds and returns has pairwise distinct
\* risk_ids, and it is the sequence of the risk items received for the
\* keyword queries, in the order of arrival, without every item whose id
\* an earlier item carries: each id has the title and description of its
\* first occurrence, and the order is that of the first occurrences.
C12_SearchMerge ==
    /\ PairwiseDistinctIds(primaryResult.risks)
    /\ PairwiseDistinctIds(fallbackResult.risks)
    /\ PairwiseDistinctIds(candidate_risks)
    /\ pc \in {"search", "fallback", "rank"} =>
          LET received == ReceivedRisks
              ids == [p \in 1..Len(received) |-> received[p].id]
              IsFirst(p) == \A q \in 1..(p - 1) : ids[q] # ids[p]
              firsts == SelectSeq([p \in 1..Len(received) |-> p], IsFirst)
          IN  /\ Len(responses) <= 3
              /\ PairwiseDistinctIds(MergedList)
              /\ Len(MergedList) = Len(firsts)
              /\ \A k \in 1..Len(firsts) :
                    /\ MergedList[k].risk_id = received[firsts[k]].id
                    /\ MergedList[k].risk_title = received[firsts[k]].title
                    /\ MergedList[k].risk_description = received[firsts[k]].description

\* three queries were answered: the first array repeats an id with another
\* title, the second brings 29 new risks and repeats two, the third is the
\* first again; the returned list has the 32 ids once each
C12_Witness ==
    /\ pc = "rank"
    /\ responses = <<SmallBody, BigBody, SmallBody>>
    /\ primaryResult.status = "returned"
    /\ Len(candidate_risks) = MAX_CANDIDATE_RISKS + 2
    /\ candidate_risks[1] = Risk(RiskId(1), <<"Title ", "1">>, <<"Desc ", "1">>)
    /\ candidate_risks[3].risk_id = ERROR_ID
    /\ candidate_risks[4].risk_id = RiskId(3)

\* the state of the run in the terms of the per-run state machine; the
\* controls lookup, the join and the return are one step, so ENRICHED is
\* passed within the step from RANKED to ASSEMBLED
Stage ==
    CASE pc = "start" -> "INIT"
      [] pc \in {"search", "fallback"} -> "KEYWORDS_EXTRACTED"
      [] pc = "rank" -> "CANDIDATES_RETRIEVED"
      [] pc = "enrich" -> "RANKED"
      [] pc = "done" /\ caught = NoErr /\ ~escaped -> "ASSEMBLED"
      [] OTHER -> "DEGRADED"

StageSuccessors ==
    {<<"INIT", "KEYWORDS_EXTRACTED">>,
     <<"KEYWORDS_EXTRACTED", "KEYWORDS_EXTRACTED">>,
     <<"KEYWORDS_EXTRACTED", "CANDIDATES_RETRIEVED">>,
     <<"CANDIDATES_RETRIEVED", "RANKED">>,
     <<"RANKED", "ASSEMBLED">>}
    \cup {<<s, "DEGRADED">> :
            s \in {"INIT", "KEYWORDS_EXTRACTED", "CANDIDATES_RETRIEVED", "RANKED"}}

\* the requests sent so far to the generation service and to the repository
CallsIssued == <<extractCalls, Len(rankLog), Len(searchLog), Len(controlsLog)>>

\* C13: the run moves only along INIT, KEYWORDS_EXTRACTED,
\* CANDIDATES_RETRIEVED, RANKED, ENRICHED, ASSEMBLED or to DEGRADED; a
\* search request is sent only after extract_keywords returned, a ranking
\* request only after the search returned, a controls request only after
\* rank_and_select returned; a step in which a call of a stage fails ends
\* in DEGRADED, and after a failure no request is sent any more.
C13_StateMachine ==
    [][/\ <<Stage, Stage'>> \in StageSuccessors
       /\ Len(searchLog') > Len(searchLog) => Stage = "KEYWORDS_EXTRACTED"
       /\ Len(rankLog') > Len(rankLog) => Stage = "CANDIDATES_RETRIEVED"
       /\ Len(controlsLog') > Len(controlsLog) => Stage = "RANKED"
       /\ extractCalls' > extractCalls => Stage = "INIT"
       /\ Len(raisedLog') > Len(raisedLog) => Stage' = "DEGRADED"
       /\ raisedLog # <<>> => CallsIssued' = CallsIssued]_vars

\* C14: in one run at most one keyword request and at most one ranking
\* request are sent to the generation service and at most one controls
\* request to the repository; a generation call that raises ends the run
\* with the "ERROR" result, and the request is not sent again.
C14_NoRetries ==
    /\ extractCalls <= 1
    /\ Len(rankLog) <= 1
    /\ Len(controlsLog) <= 1
    /\ keywordReply.kind = "raise" =>
          /\ Done
          /\ extractCalls = 1
          /\ caught = LLM_UNAVAILABLE
          /\ AllErrorEntries
          /\ searchLog = <<>> /\ rankLog = <<>> /\ controlsLog = <<>>
    /\ rankReply.kind = "raise" =>
          /\ Done
          /\ extractCalls = 1
          /\ Len(rankLog) = 1
          /\ caught = LLM_UNAVAILABLE
          /\ AllErrorEntries
          /\ controlsLog = <<>>

\* the ranking call raised after the keyword call and the search succeeded
C14_Witness ==
    /\ Done
    /\ rankReply.kind = "raise"
    /\ keywordReply.kind = "json"
    /\ extractCalls = 1
    /\ Len(rankLog) = 1
    /\ Len(rankLog[1]) > 0

\* the keyword reply is a JSON object with a numeric confidence and a list
\* of at least one keyword
ValidKeywordReply ==
    /\ keywordReply.kind = "json"
    /\ keywordReply.has_keywords /\ keywordReply.has_confidence
    /\ keywordReply.keywords_is_list /\ keywordReply.confidence_is_number
    /\ Len(keywordReply.keywords) >= 1

CandidateIds == {candidate_risks[j].risk_id : j \in 1..Len(candidate_risks)}

\* get_controls_for_risks was called and returned a mapping
ControlsReturned ==
    /\ Done
    /\ Len(controlsLog) = 1
    /\ caught = NoErr

\* C15: when the keyword reply is valid with at least one keyword, the
\* search returned a non-empty candidate list, the ranking reply has exactly
\* TOP_N_RISKS entries, each with risk_id and reasoning and the risk_id of a
\* candidate, and the controls lookup returned, the result has exactly
\* TOP_N_RISKS entries, none with risk_id "ERROR" or "N/A", and every
\* risk_id of the result is the risk_id of a candidate.
C15_SuccessPath ==
    (/\ ValidKeywordReply
     /\ candidate_risks # <<>>
     /\ WellFormedRanking
     /\ \A i \in 1..Len(rankReply.risks) : rankReply.risks[i].risk_id \in CandidateIds
     /\ ControlsReturned) =>
        /\ Len(result) = TOP_N_RISKS
        /\ \A i \in 1..Len(result) :
              /\ result[i].risk_id # <<"E", "R", "R", "O", "R">>
              /\ result[i].risk_id # <<"N", "/", "A">>
              /\ result[i].risk_id \in CandidateIds
              /\ result[i].risk_id = rankReply.risks[i].risk_id

\* three candidates, a reply that selects two of them (one twice), and a
\* controls lookup that returned controls for one
C15_Witness ==
    /\ ValidKeywordReply
    /\ Len(candidate_risks) = 3
    /\ WellFormedRanking
    /\ ControlsReturned
    /\ Len(result) = TOP_N_RISKS
    /\ result[1].risk_id = RiskId(1)
    /\ result[2].risk_id = RiskId(2)
    /\ result[3].risk_id = RiskId(1)
    /\ Len(result[1].controls) = 2
    /\ result[2].controls = <<>>

\* the keyword reply is no JSON text, or a JSON object without the keywords
\* field or without the confidence field
MalformedKeywordReply ==
    \/ keywordReply.kind = "notjson"
    \/ /\ keywordReply.kind = "json"
       /\ ~keywordReply.has_keywords \/ ~keywordReply.has_confidence

\* C16: when the keyword reply cannot be parsed as JSON, or has no keywords
\* field, or has no confidence field, extract_keywords raises and returns
\* nothing, no search request is sent to the repository, and the result of
\* the run is TOP_N_RISKS "ERROR" entries.
C16_MalformedKeywordReply ==
    MalformedKeywordReply =>
        /\ Done
        /\ keyword_result = KeywordExtractionResult(<<>>, 0)
        /\ caught # NoErr
        /\ caught.msg = IF keywordReply.kind = "notjson"
                        THEN <<"Invalid JSON response from LLM">>
                        ELSE <<"Invalid response format from LLM">>
        /\ searchLog = <<>>
        /\ primaryResult = NotCalled /\ fallbackCalls = 0
        /\ rankLog = <<>> /\ controlsLog = <<>>
        /\ Len(result) = TOP_N_RISKS
        /\ \A i \in 1..Len(result) : result[i].risk_id = <<"E", "R", "R", "O", "R">>

\* a JSON reply with a keyword list and no confidence field ended the run
C16_Witness ==
    /\ Done
    /\ keywordReply.kind = "json"
    /\ keywordReply.has_keywords
    /\ keywordReply.keywords = <<KwPlain>>
    /\ ~keywordReply.has_confidence
    /\ AllErrorEntries
    /\ searchLog = <<>>

\* the keyword reply is a JSON object with both fields whose keywords field
\* is a list without entries
EmptyKeywordReply ==
    /\ keywordReply.kind = "json"
    /\ keywordReply.has_keywords /\ keywordReply.has_confidence
    /\ keywordReply.keywords_is_list
    /\ Len(keywordReply.keywords) = 0

MalformedOutputMessages ==
    {<<"Invalid JSON response from LLM">>, <<"Invalid response format from LLM">>}

\* extract_keywords returned an outcome
KeywordsReturned == primaryResult # NotCalled

\* C17 as stated: every reply that parses and has both fields, and whose
\* keywords list has no entries, makes extract_keywords fail with the
\* message "No keywords extracted"; an outcome that is returned has at
\* least one keyword.
C17_EmptyKeywordsAsStated ==
    /\ EmptyKeywordReply =>
          /\ Done
          /\ ~KeywordsReturned
          /\ caught.msg = <<"No keywords extracted">>
    /\ KeywordsReturned => Len(keyword_result.keywords) >= 1

\* C17: every reply that parses and has both fields, whose confidence
\* float() converts and whose keywords list has no entries, makes
\* extract_keywords fail with the message "No keywords extracted", which is
\* none of the messages for malformed output; when float() rejects the
\* confidence, that conversion error is raised instead, before the keywords
\* are looked at; an outcome that is returned has at least one keyword.
C17_EmptyKeywords ==
    /\ (EmptyKeywordReply /\ keywordReply.confidence_is_number) =>
          /\ Done
          /\ ~KeywordsReturned
          /\ caught = Err("ValueError", <<"No keywords extracted">>)
          /\ caught.msg \notin MalformedOutputMessages
          /\ searchLog = <<>>
          /\ AllErrorEntries
    /\ (EmptyKeywordReply /\ ~keywordReply.confidence_is_number) =>
          /\ Done
          /\ ~KeywordsReturned
          /\ caught = Err("ValueError", <<"could not convert string to float">>)
          /\ AllErrorEntries
    /\ KeywordsReturned =>
          /\ Len(keyword_result.keywords) >= 1
          /\ keyword_result.keywords = keywordReply.keywords
          /\ keywordReply.keywords_is_list

\* a reply with an empty keyword list and a numeric confidence ended the run
C17_Witness ==
    /\ Done
    /\ EmptyKeywordReply
    /\ keywordReply.confidence_is_number
    /\ keywordReply.confidence = JsonFloat(9)
    /\ caught.msg = <<"No keywords extracted">>

\* the confidence of the keyword reply, in tenths
ReplyConfidenceTenths ==
    IF keywordReply.confidence.kind = "int"
    THEN keywordReply.confidence.v * 10
    ELSE keywordReply.confidence.v

Assembled == Done /\ caught = NoErr /\ ~escaped

\* the positions of the ranking decisions whose risk_id a candidate has
MatchedDecisions ==
    LET HasCandidate(i) == ranking_result[i].risk_id \in CandidateIds
    IN  SelectSeq([i \in 1..Len(ranking_result) |-> i], HasCandidate)

\* the first candidate of the run with this risk_id
FirstCandidate(risk_id) ==
    LET j == CHOOSE j \in 1..Len(candidate_risks) :
                /\ candidate_risks[j].risk_id = risk_id
                /\ \A k \in 1..(j - 1) : candidate_risks[k].risk_id # risk_id
    IN  candidate_risks[j]

\* C19: in a returned result, the k-th entry that is no sentinel comes from
\* the k-th ranking decision that names a candidate: it has that decision's
\* risk_id, the title and description of the first candidate with that
\* risk_id, the decision's reasoning as explanation, and as controls the
\* sequence the controls mapping holds for that risk_id, or no controls
\* when the mapping has no entry for it; a missing entry does not turn the
\* result into the "ERROR" result.
C19_JoinCorrectness ==
    /\ Assembled =>
          \A k \in 1..Len(result) :
              result[k].risk_id \notin {ERROR_ID, NA_ID} =>
                  /\ k <= Len(MatchedDecisions)
                  /\ LET decision == ranking_result[MatchedDecisions[k]]
                         r == result[k].risk_id
                     IN  /\ r = decision.risk_id
                         /\ result[k].risk_title = FirstCandidate(r).risk_title
                         /\ result[k].risk_description = FirstCandidate(r).risk_description
                         /\ result[k].explanation = decision.reasoning
                         /\ result[k].controls =
                               IF r \in DOMAIN controls_by_risk
                               THEN controls_by_risk[r] ELSE <<>>
    /\ (Done /\ Len(controlsLog) = 1 /\ caught # NoErr) =>
          \/ caught = StubError
          \/ caught = KEY_ERROR_REASONING
          \/ caught = Err("Exception", <<"Database service unavailable: ", "503 Server Error">>)

\* the candidate list holds an id twice; the decisions name it twice with
\* different reasonings and name a second risk the mapping has no entry for
C19_Witness ==
    /\ Assembled
    /\ Len(candidate_risks) = 3
    /\ candidate_risks[2].risk_id = candidate_risks[3].risk_id
    /\ ranking_result = <<OkEntry(RiskId(1)), OkEntry(RiskId(2)), AgainEntry(RiskId(1))>>
    /\ DOMAIN controls_by_risk = {RiskId(1)}
    /\ Len(result) = TOP_N_RISKS
    /\ result[1].risk_title = <<"Title ", "1">>
    /\ Len(result[1].controls) = 2
    /\ result[2].controls = <<>>
    /\ result[3].explanation = <<"again ">> \o RiskId(1)

\* the controls lookup returned and every decision has its reasoning, so
\* the join loop ran to its end
JoinCompleted ==
    /\ Done
    /\ Len(controlsLog) = 1
    /\ caught # StubError
    /\ \A i \in 1..Len(ranking_result) : ranking_result[i].has_reasoning

\* C20: when the join matched k < TOP_N_RISKS ranking decisions to a
\* candidate, the decisions without candidate are dropped and the result is
\* the k matched entries, in the order of their decisions, followed by
\* TOP_N_RISKS - k entries with risk_id "N/A" and no controls; it is not the
\* all-"ERROR" result.
C20_ShortJoinPadding ==
    (JoinCompleted /\ Len(MatchedDecisions) < TOP_N_RISKS) =>
        LET k == Len(MatchedDecisions)
        IN  /\ caught = NoErr
            /\ Len(result) = TOP_N_RISKS
            /\ \A i \in 1..k :
                  /\ result[i].risk_id = ranking_result[MatchedDecisions[i]].risk_id
                  /\ result[i].explanation = ranking_result[MatchedDecisions[i]].reasoning
                  /\ result[i].risk_id # UnknownId
            /\ \A i \in (k + 1)..TOP_N_RISKS :
                  /\ result[i].risk_id = <<"N", "/", "A">>
                  /\ result[i].controls = <<>>
                  /\ result[i].risk_title = <<"Assessment Error">>
            /\ \A i \in 1..Len(result) : result[i].risk_id # <<"E", "R", "R", "O", "R">>

\* of three decisions the second names no candidate: two entries and one
\* "N/A" entry are returned
C20_Witness ==
    /\ JoinCompleted
    /\ ranking_result = <<OkEntry(RiskId(1)), OkEntry(UnknownId), OkEntry(RiskId(2))>>
    /\ Len(candidate_risks) = 2
    /\ Len(result) = TOP_N_RISKS
    /\ result[1].risk_id = RiskId(1)
    /\ result[2].risk_id = RiskId(2)
    /\ result[3].risk_id = NA_ID

\* C21: every candidate risk that search_risks returns, and so every
\* candidate listed in a ranking request, has a risk_id of the form
\* R.<UPPERCASE_LETTERS>.<DIGITS>.
C21_CandidateIdFormat ==
    /\ \A i \in 1..Len(primaryResult.risks) : RiskIdMatches(primaryResult.risks[i].risk_id)
    /\ \A i \in 1..Len(fallbackResult.risks) : RiskIdMatches(fallbackResult.risks[i].risk_id)
    /\ \A n \in 1..Len(rankLog) :
          \A i \in 1..Len(rankLog[n]) : RiskIdMatches(rankLog[n][i].risk_id)

\* C22: when the fallback search fails at the repository, the run is
\* abandoned there: no ranking request is sent afterwards, and the
\* explanation of the returned "ERROR" entries contains the message of that
\* repository error.
C22_FallbackFailureIsStageFailure ==
    fallbackResult.status = "raised" =>
        /\ rankLog = <<>>
        /\ Done
        /\ AllErrorEntries
        /\ \A i \in 1..Len(result) :
              Contains(result[i].explanation, <<"Database service unavailable: ">>)

\* the locals of invocation r, its tape left out
LocalsOf(r) == [invocation[r] EXCEPT !.tape = <<>>]

\* what invocation r would have computed alone with the replies it received
AloneOf(r) == Replay(EngineAttrs, NewInvocation(invocation[r].seed), invocation[r].tape).l

BothReturned == \A r \in Invocations : invocation[r].pc = "done"

\* C23: two runs of assess_proposal that received the same sequence of
\* collaborator replies are at the same point of the pipeline, and once
\* returned they have identical risks lists: the same entries in the same
\* order with the same field values, whatever the interpreter's hash seed
\* and the interleaving of the two runs.
C23_Determinism ==
    invocation[1].tape = invocation[2].tape =>
        /\ invocation[1].pc = invocation[2].pc
        /\ invocation[1].result = invocation[2].result

\* two runs under different hash seeds received the same four replies, the
\* search reply with more than MAX_CANDIDATE_RISKS risks, and assembled
C23_Witness ==
    /\ BothReturned
    /\ invocation[1].seed # invocation[2].seed
    /\ invocation[1].tape = invocation[2].tape
    /\ Len(invocation[1].tape) = 4
    /\ Len(invocation[1].candidate_risks) > MAX_CANDIDATE_RISKS
    /\ invocation[1].caught = NoErr
    /\ invocation[1].result[1].risk_id = RiskId(1)

\* C24: however two assess_proposal runs on one engine instance are
\* interleaved, the attributes of the engine are never written, and the
\* locals and the result of each run are at every moment those it would have
\* alone with the replies it received: nothing of the other run's keywords,
\* candidates or ranking shows in them.
C24_ConcurrentInvocations ==
    /\ engine = EngineAttrs
    /\ \A r \in Invocations : LocalsOf(r) = AloneOf(r)

\* both runs returned assessments of different risks, the second run having
\* received its candidates between the search and the ranking of the first
C24_Witness ==
    /\ BothReturned
    /\ invocation[1].caught = NoErr
    /\ invocation[2].caught = NoErr
    /\ invocation[1].candidate_risks # invocation[2].candidate_risks
    /\ invocation[1].result[1].risk_id = RiskId(1)
    /\ invocation[2].result[1].risk_id = RiskId(3)
    /\ invocation[1].result[1].risk_title # invocation[2].result[2].risk_title

Formatted == proposal_text # NotFormatted

\* the blocks of a text: what lies before, between and after its blank lines
BlocksOf(text) ==
    LET at == SelectSeq([i \in 1..Len(text) |-> i], LAMBDA i : text[i] = BLANK_LINE)
        edges == <<0>> \o at \o <<Len(text) + 1>>
    IN  IF text = <<>> THEN <<>>
        ELSE [k \in 1..(Len(at) + 1) |-> SubSeq(text, edges[k] + 1, edges[k + 1] - 1)]

\* content renders value: a str as it is, a list as its items with ", "
\* between them
Renders(content, value) ==
    IF value.kind = "list"
    THEN /\ Len(content) = 2 * Len(value.v) - 1
         /\ \A i \in 1..Len(value.v) : <<content[2 * i - 1]>> = value.v[i]
         /\ \A i \in 1..(Len(value.v) - 1) : content[2 * i] = ", "
    ELSE content = value.v

\* the fixed fields that are expected to have a block, in the fixed order,
\* when Given tells which values count as given
ExpectedFixed(Given(_)) == SelectSeq(FixedFields, LAMBDA f : Given(proposal[f.key]))

ExpectedAdditional(Given(_)) ==
    IF Given(proposal.additional_fields) THEN proposal.additional_fields.v ELSE <<>>

\* the text has exactly the expected blocks, in order, one blank line apart
BlocksAsExpected(Given(_)) ==
    LET blocks == BlocksOf(proposal_text)
        fixed == ExpectedFixed(Given)
        extra == ExpectedAdditional(Given)
    IN  /\ Len(blocks) = Len(fixed) + Len(extra)
        /\ \A k \in 1..Len(blocks) : blocks[k] # <<>>
        /\ \A k \in 1..Min(Len(blocks), Len(fixed)) :
              /\ blocks[k][1] = fixed[k].label
              /\ Renders(Tail(blocks[k]), proposal[fixed[k].key])
        /\ \A k \in (Len(fixed) + 1)..Min(Len(blocks), Len(fixed) + Len(extra)) :
              blocks[k] = <<extra[k - Len(fixed)].key, ": ">> \o extra[k - Len(fixed)].value

IsPresent(x) == x.kind # "none"
IsNonEmpty(x) == x.kind # "none" /\ x.v # <<>>

\* C25 as stated: the text has one labelled block per present field, in the
\* fixed order and then the additional fields in their order, blocks one
\* blank line apart, and nothing for an absent field.  Refuted by a proposal
\* whose description is the empty string: the field is present and has no
\* block.
C25_FormattingAsStated == Formatted => BlocksAsExpected(IsPresent)

\* C25: the text has one labelled block per fixed field whose value is not
\* empty (neither None nor "" nor []), in the fixed order, the data sources
\* list joined by ", ", then one "key: value" block per entry of a non-empty
\* additional_fields in the given order, whatever the entry's value; the
\* blocks are one blank line apart and no other text is emitted.
C25_Formatting == Formatted => BlocksAsExpected(IsNonEmpty)

\* an empty title, two data sources, absent fields and an additional field
\* with an empty value: three blocks
C25_Witness ==
    /\ Formatted
    /\ proposal.proposal_title = Str(<<>>)
    /\ proposal.deployment = None
    /\ proposal.data_sources = List(<<<<"tickets">>, <<"logs">>>>)
    /\ proposal.additional_fields = Dict(<<Item("notes", <<>>), Item("budget", <<"10k">>)>>)
    /\ proposal_text = <<"Description: ", "Ranks incoming tickets", BLANK_LINE,
                         "Data Sources: ", "tickets", ", ", "logs", BLANK_LINE,
                         "notes", ": ", BLANK_LINE, "budget", ": ", "10k">>

\* assess_proposal has returned a result of TOP_N_RISKS entries
ReturnedResult == Done /\ ~escaped /\ Len(result) = TOP_N_RISKS

\* C26: when every external call eventually returns or raises, every run of
\* assess_proposal eventually returns, in the state ASSEMBLED or DEGRADED,
\* and no step is taken from a state in which the run is over.
C26_Termination ==
    /\ <>(ReturnedResult /\ Stage \in {"ASSEMBLED", "DEGRADED"})
    /\ [][~Done]_vars

\* the longest run has returned: three primary and three fallback queries,
\* a ranking and a controls lookup
C26_Witness ==
    /\ ReturnedResult
    /\ Stage = "ASSEMBLED"
    /\ Len(searchLog) = 2 * SEARCH_KEYWORD_LIMIT
    /\ Len(rankLog) = 1
    /\ Len(controlsLog) = 1

\* the ids of the candidates the orchestrator holds up to position
\* MAX_CANDIDATE_RISKS, and of those it holds beyond it
HeldWithinCut ==
    {candidate_risks[j].risk_id : j \in 1..Min(Len(candidate_risks), MAX_CANDIDATE_RISKS)}
HeldBeyondCut ==
    {candidate_risks[j].risk_id : j \in (MAX_CANDIDATE_RISKS + 1)..Len(candidate_risks)}

\* the entries of the ranking reply that name no candidate within the cut
OutsideCut == {i \in 1..Len(rankReply.risks) : rankReply.risks[i].risk_id \notin HeldWithinCut}

\* the reply names a candidate that the orchestrator holds only beyond the cut
NamesBeyondCut ==
    \E i \in OutsideCut : rankReply.risks[i].risk_id \in HeldBeyondCut

\* C27: a ranking reply of the right shape that names the risk_id of a
\* candidate held by the orchestrator only beyond position
\* MAX_CANDIDATE_RISKS is rejected: the ranking stage raises the invalid
\* risk_id error for the first entry outside the truncated list, no controls
\* lookup happens and the result is TOP_N_RISKS "ERROR" entries carrying
\* that message, while candidate_risks still has the candidate.
C27_GateAfterTruncation ==
    (rankLog # <<>> /\ WellFormedRanking /\ NamesBeyondCut) =>
        LET first == CHOOSE i \in OutsideCut : \A j \in OutsideCut : i <= j
            message == <<"LLM selected invalid risk_id: ">> \o rankReply.risks[first].risk_id
        IN  /\ Done
            /\ ranking_result = <<>>
            /\ controlsLog = <<>>
            /\ caught = Err("ValueError", message)
            /\ AllErrorEntries
            /\ \A i \in 1..Len(result) : Contains(result[i].explanation, message)
            /\ Len(candidate_risks) > MAX_CANDIDATE_RISKS

\* the reply names the candidate at position MAX_CANDIDATE_RISKS + 1 in its
\* second entry, after a valid first entry
C27_Witness ==
    /\ rankLog # <<>>
    /\ WellFormedRanking
    /\ Len(candidate_risks) = MAX_CANDIDATE_RISKS + 1
    /\ candidate_risks[MAX_CANDIDATE_RISKS + 1].risk_id = BeyondId
    /\ rankReply.risks[1].risk_id \in HeldWithinCut
    /\ rankReply.risks[2].risk_id = BeyondId
    /\ Len(Offered) = MAX_CANDIDATE_RISKS
    /\ Done
    /\ AllErrorEntries

\* the ranking reply passes every check of rank_and_select
AcceptableRanking ==
    /\ rankLog # <<>>
    /\ WellFormedRanking
    /\ \A i \in 1..Len(rankReply.risks) : rankReply.risks[i].risk_id \in OfferedIds

ReplyIds == [i \in 1..Len(rankReply.risks) |-> rankReply.risks[i].risk_id]

\* the positions of the result that hold no "N/A" entry
NonSentinel == SelectSeq([i \in 1..Len(result) |-> i], LAMBDA i : result[i].risk_id # NA_ID)

\* C28: an accepted ranking reply is returned by rank_and_select entry for
\* entry in reply order; the controls lookup is asked for the selected
\* risk_ids in that order; and in the result of a run that ended without
\* error the entries other than "N/A" follow the order of the reply, each
\* with the reasoning of its decision, all "N/A" entries coming after them.
C28_OrderPreservation ==
    AcceptableRanking =>
        /\ ranking_result = rankReply.risks
        /\ \A n \in 1..Len(controlsLog) : controlsLog[n] = ReplyIds
        /\ Assembled =>
              /\ \A k \in 1..Len(NonSentinel) :
                    /\ NonSentinel[k] = k
                    /\ result[k].risk_id = rankReply.risks[MatchedDecisions[k]].risk_id
                    /\ result[k].explanation = rankReply.risks[MatchedDecisions[k]].reasoning
              /\ Len(NonSentinel) = Len(MatchedDecisions)

\* three different risks selected in an order that is not the order of the
\* candidate list
C28_Witness ==
    /\ AcceptableRanking
    /\ Assembled
    /\ Len(controlsLog) = 1
    /\ Len(candidate_risks) >= TOP_N_RISKS
    /\ result[1].risk_id = candidate_risks[2].risk_id
    /\ result[2].risk_id = candidate_risks[1].risk_id
    /\ result[1].risk_id # result[2].risk_id

\* C29: when a request of the search on the extracted keywords fails, the
\* search raises: the run is over, nothing of what earlier keywords returned
\* is kept as candidates, the fallback search is not attempted, no ranking
\* request and no controls lookup is sent, and the result is TOP_N_RISKS
\* "ERROR" entries whose explanation is "Error: Database service
\* unavailable: " followed by the request error.
C29_PrimarySearchFailure ==
    primaryResult.status = "raised" =>
        /\ Done
        /\ all_risks = <<>>
        /\ candidate_risks = <<>>
        /\ fallbackCalls = 0
        /\ fallbackResult = NotCalled
        /\ FallbackQueries = <<>>
        /\ Len(PrimaryQueries) <= SEARCH_KEYWORD_LIMIT
        /\ rankLog = <<>>
        /\ controlsLog = <<>>
        /\ AllErrorEntries
        /\ \A i \in 1..Len(result) :
              result[i].explanation =
                  <<"Error: ", "Database service unavailable: ">> \o HTTP_ERROR.msg

\* the request for the third keyword failed after two requests were answered
C29_Witness ==
    /\ primaryResult.status = "raised"
    /\ Len(searchLog) = SEARCH_KEYWORD_LIMIT
    /\ Len(keyword_result.keywords) > SEARCH_KEYWORD_LIMIT
    /\ Done
    /\ AllErrorEntries

\* the entries of the ranking reply, in reply order, that lack a field or
\* name a risk_id that was not offered
RejectedEntries ==
    {i \in 1..Len(rankReply.risks) :
        \/ ~rankReply.risks[i].has_risk_id
        \/ ~rankReply.risks[i].has_reasoning
        \/ rankReply.risks[i].risk_id \notin OfferedIds}

\* the one error a ranking reply is answered with, by the stated precedence
ExpectedRankingError ==
    LET ranked == rankReply.risks
        first == CHOOSE i \in RejectedEntries : \A j \in RejectedEntries : i <= j
    IN  IF rankReply.kind = "notjson"
        THEN Err("Exception", <<"Invalid JSON response from LLM">>)
        ELSE IF ~rankReply.has_risks
        THEN Err("ValueError", <<"Invalid response format from LLM">>)
        ELSE IF Len(ranked) # TOP_N_RISKS
        THEN Err("ValueError", <<"Expected ", "3", " risks, got ">> \o IntStr(Len(ranked)))
        ELSE IF RejectedEntries = {} THEN NoErr
        ELSE IF ~ranked[first].has_risk_id \/ ~ranked[first].has_reasoning
        THEN Err("ValueError", <<"Invalid risk format in LLM response">>)
        ELSE Err("ValueError", <<"LLM selected invalid risk_id: ">> \o ranked[first].risk_id)

\* C30: a ranking reply is answered with exactly one error, chosen by
\* precedence: a reply that does not parse or has no risks field, then an
\* array whose length is not TOP_N_RISKS, then the first entry in reply
\* order that lacks risk_id or reasoning or names a risk_id that was not
\* offered; an unknown risk_id in an earlier entry is reported rather than a
\* missing field in a later one.  A reply with none of these is accepted.
\* The error is the only one the ranking raises: the log of raised errors
\* holds it last, after at most the error of a failed fallback search.
C30_ValidationPrecedence ==
    (rankLog # <<>> /\ rankReply.kind \in {"json", "notjson"}) =>
        LET before == IF fallbackResult.status = "raised" THEN 1 ELSE 0
        IN  IF ExpectedRankingError = NoErr
            THEN /\ ranking_result = rankReply.risks
                 /\ pc = "enrich" => Len(raisedLog) = before
            ELSE /\ Done
                 /\ ranking_result = <<>>
                 /\ caught = ExpectedRankingError
                 /\ Len(raisedLog) = before + 1
                 /\ raisedLog[Len(raisedLog)] = caught

\* an unknown risk_id in the first entry, a missing risk_id in the second:
\* the unknown risk_id is reported
C30_Witness ==
    /\ rankLog # <<>>
    /\ rankReply.kind = "json"
    /\ Len(rankReply.risks) = TOP_N_RISKS
    /\ rankReply.risks[1] = OkEntry(BeyondId)
    /\ BeyondId \notin OfferedIds
    /\ rankReply.risks[2] = NoIdEntry
    /\ caught = Err("ValueError", <<"LLM selected invalid risk_id: ">> \o BeyondId)
    /\ Done

\* the characters a query value may hold: ASCII letters and digits,
\* whitespace, '-' and '_'
QueryChars ==
    LowerChars \cup UpperChars \cup Range(DigitChars) \cup {"-", "_"}
        \cup {" ", "\t", "\n", "\r", "\f", NO_BREAK_SPACE}

CleanQuery(q) ==
    /\ Len(q) <= SANITIZED_MAX_LEN
    /\ \A n \in 1..Len(q) : q[n] \in QueryChars

\* C31: whatever the keyword strings, every q value that search_risks sends
\* to /api/search holds only ASCII letters, digits, whitespace, '-' and '_'
\* and is at most 100 characters long, in the requests of the pipeline as
\* well; and sanitising the values sent once more leaves each unchanged.
C31_KeywordSanitisation ==
    /\ queries # NotSent => \A i \in 1..Len(queries) : CleanQuery(queries[i])
    /\ resanitized # NotSent => resanitized = queries
    /\ \A i \in 1..Len(searchLog) : CleanQuery(searchLog[i].q)

\* a keyword that is still too long after filtering and one with characters
\* beyond ASCII were sent and sanitised again
C31_Witness ==
    /\ search_keywords = <<KwLong, KwUnicode>>
    /\ resanitized # NotSent
    /\ Len(queries) = 2
    /\ Len(queries[1]) = SANITIZED_MAX_LEN
    /\ queries[2] = <<"r", "_", NO_BREAK_SPACE, "\t", "Z", "9">>

\* the fallback keywords that are sent, and those that are not
SentFallback ==
    <<<<"d", "a", "t", "a">>, <<"m", "o", "d", "e", "l">>,
      <<"s", "e", "c", "u", "r", "i", "t", "y">>>>
UnsentFallback ==
    {<<"p", "r", "i", "v", "a", "c", "y">>,
     <<"g", "o", "v", "e", "r", "n", "a", "n", "c", "e">>}

\* the fallback search returned, and the repository had answered with risks
\* to no query other than "privacy" and "governance"
MatchedOnlyUnsent ==
    /\ pc = "rank"
    /\ fallbackResult.status = "returned"
    /\ Len(responses) = Len(FallbackQueries)
    /\ \A i \in 1..Len(FallbackQueries) :
          FallbackQueries[i].q \notin UnsentFallback => RiskItemsOf(i) = <<>>

\* C32: the fallback search sends "data", "model" and "security", in that
\* order and nothing else: "privacy" and "governance" are never the q of a
\* request.  So when the repository has risks for those two keywords only,
\* the fallback search returns an empty candidate list.
C32_FallbackKeywordLimit ==
    /\ Len(FallbackQueries) <= SEARCH_KEYWORD_LIMIT
    /\ \A i \in 1..Len(FallbackQueries) : FallbackQueries[i].q = SentFallback[i]
    /\ \A i \in 1..Len(FallbackQueries) : FallbackQueries[i].q \notin UnsentFallback
    /\ fallbackResult.status = "returned" => Len(FallbackQueries) = SEARCH_KEYWORD_LIMIT
    /\ MatchedOnlyUnsent => (fallbackResult.risks = <<>> /\ candidate_risks = <<>>)

\* the three fallback queries were answered without risks and the ranking
\* stage is about to be called with no candidates
C32_Witness ==
    /\ MatchedOnlyUnsent
    /\ Len(FallbackQueries) = SEARCH_KEYWORD_LIMIT
    /\ FallbackQueries[3].q = <<"s", "e", "c", "u", "r", "i", "t", "y">>
    /\ candidate_risks = <<>>

\* the ranking reply invocation r received, if it received one
RankingRepliesOf(r) ==
    SelectSeq(invocation[r].tape, LAMBDA reply : "has_risks" \in DOMAIN reply)

\* invocation r returned a result that is not the "ERROR" result
ReturnedAssessments(r) == invocation[r].pc = "done" /\ invocation[r].caught = NoErr

IdsOf(entries) == [i \in 1..Len(entries) |-> entries[i].risk_id]

HasRepeat(ids) == \E i, j \in 1..Len(ids) : i < j /\ ids[i] = ids[j]

\* the ranking reply of invocation r has TOP_N_RISKS complete entries that
\* all name candidates of the truncated list
NamesCandidatesOnly(r) ==
    /\ RankingRepliesOf(r) # <<>>
    /\ LET reply == RankingRepliesOf(r)[1]
           held == invocation[r].candidate_risks
           cut == {held[j].risk_id : j \in 1..Min(Len(held), MAX_CANDIDATE_RISKS)}
       IN  /\ reply.kind = "json"
           /\ reply.has_risks
           /\ Len(reply.risks) = TOP_N_RISKS
           /\ \A i \in 1..Len(reply.risks) :
                 /\ reply.risks[i].has_risk_id
                 /\ reply.risks[i].has_reasoning
                 /\ reply.risks[i].risk_id \in cut

\* C33: a ranking reply of TOP_N_RISKS entries that all name candidates
\* passes validation whether or not it names a candidate more than once,
\* and the returned result has the risk_ids of the reply entry for entry,
\* repeats included; so with 1 to TOP_N_RISKS - 1 candidates every result
\* that is not the "ERROR" result has some risk_id in more than one entry.
C33_RepeatedSelections ==
    \A r \in Invocations :
        /\ NamesCandidatesOnly(r) =>
              /\ invocation[r].ranking_result = RankingRepliesOf(r)[1].risks
              /\ invocation[r].pc \in {"enrich", "done"}
              /\ ReturnedAssessments(r) =>
                    IdsOf(invocation[r].result) = IdsOf(RankingRepliesOf(r)[1].risks)
        /\ (/\ ReturnedAssessments(r)
            /\ Len(invocation[r].candidate_risks) \in 1..(TOP_N_RISKS - 1)) =>
              /\ Len(invocation[r].result) = TOP_N_RISKS
              /\ HasRepeat(IdsOf(invocation[r].result))

\* with two candidates one run returned R.A.1 twice, with one candidate the
\* other run returned it three times
C33_Witness ==
    /\ ReturnedAssessments(1)
    /\ ReturnedAssessments(2)
    /\ Len(invocation[1].candidate_risks) = 2
    /\ IdsOf(invocation[1].result) = <<RiskId(1), RiskId(2), RiskId(1)>>
    /\ Len(invocation[2].candidate_risks) = 1
    /\ IdsOf(invocation[2].result) = <<RiskId(1), RiskId(1), RiskId(1)>>

\* the entries of the accepted ranking whose risk_id is not of the form
\* R.<LETTERS>.<DIGITS>
MalformedSelections == {i \in 1..Len(rankReply.risks) : ~RiskIdMatches(rankReply.risks[i].risk_id)}

\* C34: when the ranking selected a candidate whose risk_id does not match
\* R.<UPPERCASE>.<DIGITS>, the controls lookup raises on the first such id
\* without sending a request, and the run returns TOP_N_RISKS "ERROR"
\* entries carrying that error: nothing is returned for the other selected
\* risks, well formed as their ids are.
C34_FormatValidationDegrades ==
    (AcceptableRanking /\ MalformedSelections # {}) =>
        LET first == CHOOSE i \in MalformedSelections : \A j \in MalformedSelections : i <= j
            message == <<"Invalid risk ID format: ">> \o rankReply.risks[first].risk_id
        IN  /\ ranking_result = rankReply.risks
            /\ controlsLog = <<>>
            /\ controls_by_risk = <<>>
            /\ pc \in {"enrich", "done"}
            /\ Done =>
                  /\ caught = Err("ValueError", message)
                  /\ AllErrorEntries
                  /\ \A i \in 1..Len(result) :
                        result[i].explanation = <<"Error: ">> \o message

\* the ranking selected two well-formed candidates and then the candidate
\* whose id is "ERROR"; the run is over without a controls request
C34_Witness ==
    /\ AcceptableRanking
    /\ Done
    /\ MalformedSelections = {TOP_N_RISKS}
    /\ RiskIdMatches(rankReply.risks[1].risk_id)
    /\ RiskIdMatches(rankReply.risks[2].risk_id)
    /\ rankReply.risks[1].risk_id # rankReply.risks[2].risk_id
    /\ controlsLog = <<>>
    /\ caught.cls = "ValueError"
    /\ AllErrorEntries

\* C35: with the ranking stage of GeminiLLMService no returned result has an
\* "N/A" entry: the result has TOP_N_RISKS entries that are either all
\* "ERROR" entries or all entries of candidates, one per ranking decision and
\* each found in the orchestrator's candidate list.
C35_NoPaddingWithRealRanking ==
    Done =>
        /\ ~escaped
        /\ Len(result) = TOP_N_RISKS
        /\ \A i \in 1..Len(result) : result[i].risk_id # <<"N", "/", "A">>
        /\ \/ AllErrorEntries
           \/ /\ Len(ranking_result) = TOP_N_RISKS
              /\ \A i \in 1..Len(result) :
                    /\ result[i].risk_id = ranking_result[i].risk_id
                    /\ \E j \in 1..Len(candidate_risks) :
                          /\ candidate_risks[j].risk_id = result[i].risk_id
                          /\ candidate_risks[j].risk_title = result[i].risk_title

\* a run over more than MAX_CANDIDATE_RISKS candidates returned three
\* entries of candidates, the second of them twice
C35_Witness ==
    /\ Done
    /\ caught = NoErr
    /\ Len(candidate_risks) > MAX_CANDIDATE_RISKS
    /\ Len(result) = TOP_N_RISKS
    /\ result[1].risk_id = candidate_risks[2].risk_id
    /\ result[3].risk_id = candidate_risks[2].risk_id
    /\ result[2].risk_id = candidate_risks[1].risk_id

\* C36: whatever list of decisions the injected ranking collaborator
\* returned, the result that assess_proposal returns has exactly
\* TOP_N_RISKS entries.  Refuted by a ranking of TOP_N_RISKS + 1 decisions
\* that all match candidates: the result has TOP_N_RISKS + 1 entries.
C36_ShapeForInjectedRanking ==
    (Done /\ rankLog # <<>> /\ ~escaped) => Len(result) = TOP_N_RISKS

\* ------------------------------------------------ C37: the confidence score
\* the replies an invocation received, the confidence of the keyword reply
\* blanked
TapeButConfidence(r) ==
    [i \in 1..Len(invocation[r].tape) |->
        IF i = 1 /\ invocation[r].tape[1].kind = "json"
        THEN [invocation[r].tape[1] EXCEPT !.confidence = NoNumber]
        ELSE invocation[r].tape[i]]

\* both invocations received a keyword reply with a JSON number as
\* confidence, and their replies differ in that number at most
DifferInConfidenceOnly ==
    /\ \A r \in Invocations :
          /\ Len(invocation[r].tape) >= 1
          /\ invocation[r].tape[1].kind = "json"
          /\ invocation[r].tape[1].confidence_is_number
    /\ TapeButConfidence(1) = TapeButConfidence(2)

\* the two invocations made the same queries and ranking request and hold
\* the same result
SameOutcome ==
    /\ invocation[1].pc = invocation[2].pc
    /\ invocation[1].keywords = invocation[2].keywords
    /\ invocation[1].candidate_risks = invocation[2].candidate_risks
    /\ invocation[1].ranking_result = invocation[2].ranking_result
    /\ invocation[1].result = invocation[2].result

====
